---- MODULE Spec2Model ----
(***************************************************************************)
(* A model of the intervals-icu-mcp tool layer: the HTTP client            *)
(* (client.py), the calendar tools (tools/events.py) and the workout       *)
(* library tools (tools/workout_library.py).                               *)
(*                                                                         *)
(* One tool invocation runs at a time.  Every tool is a coroutine: the     *)
(* action named after the tool runs it from its first line to its first    *)
(* await of a network call (or to its return), and Resume runs it from     *)
(* the arrival of a remote outcome to the next await or to the return.     *)
(* The remote is free: every request may be answered by any outcome of     *)
(* Outcomes.  calls and outcomes record the requests of the invocation     *)
(* and what the remote answered to each.                                   *)
(*                                                                         *)
(* Python values: None is <<>> and a present optional value x is <<x>>;    *)
(* a list is a sequence, with index i of Python at position i + 1.         *)
(* Every tool is entered with the context the middleware injects (the      *)
(* tools assert ctx is not None before anything else).                     *)
(***************************************************************************)
EXTENDS Integers, Sequences, FiniteSets, TLC

VARIABLES
    pc,        \* "idle", "awaiting" (suspended in a network call), "returned", "raised"
    tool,      \* the tool (or client operation) being run
    args,      \* its arguments
    frame,     \* its local variables that live across an await
    client,    \* ICUClient._client of the invocation: "none", "open", "closed"
    calls,     \* the HTTP requests issued by the invocation, in order
    outcomes,  \* what the remote answered to each of calls
    result,    \* the envelope returned, or the exception that left the tool
    now        \* the current local date, as a proleptic ordinal (date.toordinal())

vars == <<pc, tool, args, frame, client, calls, outcomes, result, now>>

----------------------------------------------------------------------------
(* Bounds of the model *)

MaxItems == 2      \* longest list in a caller's JSON array or a remote response
MaxTicks == 1      \* midnights that pass while the model runs
MaxInvocations == 2   \* tool invocations in flight at the same time
MaxSessions == 3      \* sessions opened in one run of the concurrent specification

(* Program constants *)

FetchWindowDays == 30
DaysPerWeek == 7

\* the first date of the model: date(2024, 1, 1).toordinal()
FirstDay == 738886

----------------------------------------------------------------------------
(* Python values *)

None == <<>>
Some(x) == <<x>>

\* bool(x) of an optional int: None and 0 are falsy
TruthyInt(x) == x # None /\ x # Some(0)

\* bool(x) of an optional str: None and "" are falsy
TruthyStr(x) == x # None /\ x # Some("")

\* x or d, for an optional int x and for an optional str x
IntOr(x, d) == IF TruthyInt(x) THEN x[1] ELSE d
StrOr(x, d) == IF TruthyStr(x) THEN x[1] ELSE d

Min(a, b) == IF a <= b THEN a ELSE b
Max(a, b) == IF a >= b THEN a ELSE b

\* s[:k] of Python: k >= 0 keeps the first min(k, len) items, k < 0 drops the
\* last -k items
SliceTo(s, k) ==
    IF k >= 0 THEN SubSeq(s, 1, Min(k, Len(s)))
    ELSE SubSeq(s, 1, Max(Len(s) + k, 0))

\* Strings that may hold a date.  text is the shape of the string and day the
\* date it names (0 when it names none).
Str(text, day) == [text |-> text, day |-> day]
EmptyStr == Str("", 0)

\* the days a datetime can hold, 0001-01-01 to 9999-12-31 as day numbers;
\* datetime.now() +/- timedelta(days=n) raises OverflowError outside them
InDateRange(d) == d >= 1 /\ d <= 3652059

\* date.isoformat(), datetime.strftime("%Y-%m-%d")
isoformat(d) == Str("YYYY-MM-DD", d)

\* a date followed by a time of day, as the remote writes local timestamps
timestamp(d) == Str("YYYY-MM-DDTHH:MM:SS", d)

\* s.split("T")[0]: the text before the first T
split_T(s) == IF s.text = "YYYY-MM-DDTHH:MM:SS" THEN Str("YYYY-MM-DD", s.day) ELSE s

\* datetime.strptime(s, "%Y-%m-%d") succeeds on a date and on nothing else
IsDate(s) == s.text = "YYYY-MM-DD"

\* a < b as Python orders strings: "" first, then the dates and timestamps by
\* date with a date before the timestamps of its day, then text starting
\* with a letter
StrRank(s) ==
    CASE s.text = "" -> 0
      [] s.text = "YYYY-MM-DD" -> 1
      [] s.text = "YYYY-MM-DDTHH:MM:SS" -> 2
      [] OTHER -> 3

StrLess(a, b) ==
    LET dated(s) == StrRank(s) \in {1, 2} IN
    IF dated(a) /\ dated(b)
    THEN a.day < b.day \/ (a.day = b.day /\ StrRank(a) < StrRank(b))
    ELSE IF dated(a) \/ dated(b)
    THEN (StrRank(a) = 0) \/ (StrRank(b) = 3)
    ELSE StrRank(a) < StrRank(b)

\* date.weekday(): Monday is 0
weekday(d) == (d + 6) % 7

\* a message: a format string of the source with the values it interpolates
Msg(fmt, ints, strs) == [fmt |-> fmt, ints |-> ints, strs |-> strs]

RECURSIVE SumSeq(_)
SumSeq(s) == IF s = <<>> THEN 0 ELSE Head(s) + SumSeq(Tail(s))

\* all sequences over S of length at most n
SeqsUpTo(S, n) == UNION {[1..k -> S] : k \in 0..n}

----------------------------------------------------------------------------
(* client.py: ICUAPIError, ICUClient *)

\* ICUAPIError(message, status_code)
ICUAPIError(message, status_code) ==
    [exc |-> "ICUAPIError", message |-> message, status_code |-> status_code]

\* any other exception: its class and str(e)
PyError(class, text) ==
    [exc |-> class, message |-> Msg("{e}", <<>>, <<text>>), status_code |-> None]

\* An HTTP request: method, endpoint template, the id interpolated in it (0 when
\* the template has none beyond the athlete id), query parameters, JSON body.
Request(method, endpoint, id, params, json) ==
    [method |-> method, endpoint |-> endpoint, id |-> id, params |-> params, json |-> json]

NoParams == <<>>
NoJson == <<>>

\* What the remote can answer.  A response carries a status, its text and, when
\* it is JSON, the items of its body (a single object is one item); valid is
\* whether the body has the shape the model classes require.
Response(status, valid, items, text) ==
    [kind |-> "response", status |-> status, valid |-> valid, items |-> items, text |-> text]

\* httpx.RequestError: connection refused, DNS failure, timeout after 30 s
TransportFailure(text) ==
    [kind |-> "transport", status |-> 0, valid |-> FALSE, items |-> <<>>, text |-> text]

IsSuccess(o) == o.kind = "response" /\ o.status >= 200 /\ o.status <= 299

\* ICUClient.__aenter__: a new httpx.AsyncClient with Basic auth and the timeout
AEnter == "open"

\* __aexit__ that leaves the session open
AExit_Leak(c) == c

\* ICUClient.__aexit__: closes the session when there is one
AExit(c) == IF c # "none" THEN "closed" ELSE c

\* the status checks of _request, the ICUAPIError of each, and no error for 2xx
StatusError(o) ==
    IF o.status = 401
    THEN [raised |-> TRUE,
          error  |-> ICUAPIError(Msg("Unauthorized. Check your API key and athlete ID.", <<>>, <<>>), Some(401))]
    ELSE IF o.status = 404
    THEN [raised |-> TRUE,
          error  |-> ICUAPIError(Msg("Resource not found.", <<>>, <<>>), Some(404))]
    ELSE IF o.status = 429
    THEN [raised |-> TRUE,
          error  |-> ICUAPIError(Msg("Rate limit exceeded. Please try again later.", <<>>, <<>>), Some(429))]
    ELSE IF ~IsSuccess(o)
    THEN [raised |-> TRUE,
          error  |-> ICUAPIError(Msg("HTTP {status}: {text}", <<o.status>>, <<o.text>>), Some(o.status))]
    ELSE [raised |-> FALSE, error |-> PyError("", "")]

\* _request that builds its session when it has none instead of raising
_request_Lazy(c, o) ==
    IF c = "closed"
    THEN [raised |-> TRUE,
          error  |-> PyError("RuntimeError", "Cannot send a request, as the client has been closed.")]
    ELSE IF o.kind = "transport"
    THEN [raised |-> TRUE,
          error  |-> ICUAPIError(Msg("Request failed: {e}", <<>>, <<o.text>>), None)]
    ELSE StatusError(o)

\* _request without the except clause for httpx.RequestError
_request_Uncaught(c, o) ==
    IF c = "none"
    THEN [raised |-> TRUE,
          error  |-> PyError("RuntimeError", "Client not initialized. Use async context manager.")]
    ELSE IF c = "closed"
    THEN [raised |-> TRUE,
          error  |-> PyError("RuntimeError", "Cannot send a request, as the client has been closed.")]
    ELSE IF o.kind = "transport"
    THEN [raised |-> TRUE, error |-> PyError("RequestError", o.text)]
    ELSE StatusError(o)

\* ICUClient._request once the remote has answered with o: the response, or the
\* error raised.  The guard is "if not self._client"; __aexit__ closes the session
\* and keeps it in self._client, so a closed session passes the guard and
\* httpx.AsyncClient.request raises the RuntimeError of a closed client, which is
\* no httpx.RequestError.
_request(c, o) ==
    IF c = "none"
    THEN [raised |-> TRUE,
          error  |-> PyError("RuntimeError", "Client not initialized. Use async context manager.")]
    ELSE IF c = "closed"
    THEN [raised |-> TRUE,
          error  |-> PyError("RuntimeError", "Cannot send a request, as the client has been closed.")]
    ELSE IF o.kind = "transport"
    THEN [raised |-> TRUE,
          error  |-> ICUAPIError(Msg("Request failed: {e}", <<>>, <<o.text>>), None)]
    ELSE StatusError(o)

\* TypeAdapter(...).validate_python(response.json()) / Model(**response.json())
ParseBody(c, o) ==
    LET r == _request(c, o) IN
    IF r.raised THEN r
    ELSE IF ~o.valid THEN [raised |-> TRUE, error |-> PyError("ValidationError", "validation error")]
    ELSE r

----------------------------------------------------------------------------
(* response_builder.py: the two envelopes *)

\* ResponseBuilder.build_response(data, analysis, ...)
build_response(data, analysis) ==
    [kind |-> "data", type |-> "", message |-> Msg("", <<>>, <<>>),
     data |-> data, analysis |-> analysis]

\* ResponseBuilder.build_error_response(message, error_type)
build_error_response(message, error_type) ==
    [kind |-> "error", type |-> error_type, message |-> message,
     data |-> <<>>, analysis |-> <<>>]

\* an exception that leaves the tool function
Escaped(e) ==
    [kind |-> "exception", type |-> e.exc, message |-> e.message,
     data |-> [status_code |-> e.status_code], analysis |-> <<>>]

\* the except clauses without the one for ICUAPIError
HandleError_Internal(e) ==
    build_error_response(Msg("Unexpected error: {e}", <<>>, e.message.strs), "internal_error")

\* except ICUAPIError as e: ... / except Exception as e: ...
HandleError(e) ==
    IF e.exc = "ICUAPIError"
    THEN build_error_response(e.message, "api_error")
    ELSE build_error_response(Msg("Unexpected error: {e}", <<>>, e.message.strs), "internal_error")

----------------------------------------------------------------------------
(* JSON text of a caller and json.loads *)

\* JSON values: an array of values, an object (a function from its keys), a number
JArray(items) == [kind |-> "array", items |-> items, fields |-> <<>>]
JObject(fields) == [kind |-> "object", items |-> <<>>, fields |-> fields]
JNumber == [kind |-> "number", items |-> <<>>, fields |-> <<>>]

\* A str argument holding JSON is one of: no string at all (None); the empty string; text that is not
\* JSON; text json.loads gives up on with an error that is no JSONDecodeError
\* (arrays nested deeper than the interpreter's recursion limit raise
\* RecursionError, an integer literal longer than the int-to-str digit limit
\* raises ValueError); the text of a JSON value.
NoText == [form |-> "none", value |-> JNumber]
EmptyText == [form |-> "empty", value |-> JNumber]
MalformedText == [form |-> "malformed", value |-> JNumber]
OverLimitText == [form |-> "overlimit", value |-> JNumber]
TextOf(v) == [form |-> "json", value |-> v]

\* json.loads(text)
json_loads(text) ==
    IF text.form \in {"empty", "malformed"}
    THEN [raised |-> TRUE, error |-> PyError("JSONDecodeError", "Expecting value"),
          value |-> JNumber]
    ELSE IF text.form = "overlimit"
    THEN [raised |-> TRUE, error |-> PyError("RecursionError", "maximum recursion depth exceeded"),
          value |-> JNumber]
    ELSE [raised |-> FALSE, error |-> PyError("", ""), value |-> text.value]

----------------------------------------------------------------------------
(* models.py: what the remote's JSON deserialises to *)

\* Folder: id is required, every other field is optional
Folder(id, name, type, num_workouts, duration_weeks) ==
    [id |-> id, name |-> name, type |-> type, visibility |-> Some("PRIVATE"),
     description |-> None, num_workouts |-> num_workouts,
     start_date_local |-> None, duration_weeks |-> duration_weeks]

\* Workout: id is required, every other field is optional
Workout(id, moving_time, icu_training_load, folder_id) ==
    [id |-> id, name |-> Some("Easy Run"), type |-> Some("Run"), description |-> None,
     folder_id |-> folder_id, moving_time |-> moving_time,
     icu_training_load |-> icu_training_load]

\* Event: id and start_date_local are required, every other field is optional
Event(id, start_date_local, category, icu_training_load) ==
    [id |-> id, start_date_local |-> start_date_local, category |-> category,
     name |-> None, type |-> None, icu_training_load |-> icu_training_load]

\* the events the remote may list: workouts and a note, dated around the first
\* week, one with a time of day, one whose date is no date
EventSet ==
    { Event(1, isoformat(FirstDay + 3), Some("WORKOUT"), Some(50)),
      Event(2, timestamp(FirstDay + 3), Some("WORKOUT"), None),
      Event(3, isoformat(FirstDay + 4), Some("NOTE"), None),
      Event(4, isoformat(FirstDay + 1), Some("WORKOUT"), Some(0)),
      Event(5, Str("soon", 0), Some("WORKOUT"), Some(20)) }

\* the activities the remote may list (ActivitySummary, Activity, search results
\* and intervals alike: the client only counts them)
ActivitySet == { [id |-> "i1"], [id |-> "i2"], [id |-> "i3"] }

\* the folders the remote may list or return: two share an id, one has neither
\* type nor workout count, one has an empty type, one is of type PLAN without a
\* duration
FolderSet ==
    { Folder(1, Some("Base"), Some("PLAN"), Some(10), Some(12)),
      Folder(2, None, None, None, None),
      Folder(1, Some("Copy"), Some(""), Some(0), None),
      Folder(4, Some("Block"), Some("PLAN"), Some(4), None) }

\* the workouts the remote may return
WorkoutSet ==
    { Workout(11, Some(1800), Some(30), Some(1)),
      Workout(12, None, None, None) }

----------------------------------------------------------------------------
(* State of an invocation *)

NoArgs ==
    [days_ahead |-> 0, days_back |-> 0, limit |-> 0, event_id |-> 0, folder_id |-> 0,
     name |-> "", plan_type |-> "", description |-> None, start_date |-> None,
     visibility |-> "", workouts |-> NoText]

NoFrame ==
    [step |-> "", oldest |-> EmptyStr, newest |-> EmptyStr, workouts_list |-> <<>>,
     start_date |-> None, auto_set_date |-> FALSE, folder |-> None]

NoResult ==
    [kind |-> "none", type |-> "", message |-> Msg("", <<>>, <<>>),
     data |-> <<>>, analysis |-> <<>>]

Init ==
    /\ pc = "idle"
    /\ tool = "none"
    /\ args = NoArgs
    /\ frame = NoFrame
    /\ client = "none"
    /\ calls = <<>>
    /\ outcomes = <<>>
    /\ result = NoResult
    /\ now \in FirstDay .. FirstDay + DaysPerWeek - 1

\* a tool can be invoked when no invocation is in progress
CanInvoke == pc = "idle"

\* the tool function is entered: t(a)
Enter(t, a) ==
    /\ CanInvoke
    /\ tool' = t
    /\ args' = a
    /\ now' = now

\* return before any connection scope is acquired
ReturnEarly(env) ==
    /\ pc' = "returned"
    /\ result' = env
    /\ frame' = NoFrame
    /\ client' = "none"
    /\ calls' = <<>>
    /\ outcomes' = <<>>

\* an exception leaves the tool before any connection scope is acquired
RaiseEarly(e) ==
    /\ pc' = "raised"
    /\ result' = Escaped(e)
    /\ frame' = NoFrame
    /\ client' = "none"
    /\ calls' = <<>>
    /\ outcomes' = <<>>

\* async with ICUClient(config) as client: the first request of the invocation
\* is sent and the coroutine is suspended until the remote answers
EnterScope(req, f) ==
    /\ pc' = "awaiting"
    /\ result' = NoResult
    /\ frame' = f
    /\ client' = AEnter
    /\ calls' = <<req>>
    /\ outcomes' = <<>>

\* a further request of the invocation is sent
Await(req, f) ==
    /\ pc' = "awaiting"
    /\ frame' = f
    /\ calls' = Append(calls, req)
    /\ UNCHANGED <<client, result>>

\* return inside the connection scope: __aexit__ runs, then the tool returns
Return(env) ==
    /\ pc' = "returned"
    /\ result' = env
    /\ client' = AExit(client)
    /\ UNCHANGED <<frame, calls>>

\* an exception inside the connection scope: __aexit__ runs, then the tool's
\* except clauses turn it into an envelope
Except(e) == Return(HandleError(e))

\* the remote answers the request in flight with o
Answered(t, step, o) ==
    /\ pc = "awaiting"
    /\ tool = t
    /\ frame.step = step
    /\ outcomes' = Append(outcomes, o)
    /\ UNCHANGED <<tool, args, now>>

\* what the remote may answer to anything: a transport failure or an error status
Failures ==
    { TransportFailure("timed out"),
      Response(401, FALSE, <<>>, "unauthorized"),
      Response(404, FALSE, <<>>, "not found"),
      Response(429, FALSE, <<>>, "slow down"),
      Response(500, FALSE, <<>>, "server error") }

\* a 2xx response whose body is a JSON list over S, or has another shape
ListOutcomes(S) ==
    { Response(200, TRUE, items, "") : items \in SeqsUpTo(S, MaxItems) }
        \cup { Response(200, FALSE, <<>>, "{}") } \cup Failures

\* a 2xx response whose body is one JSON object of S, or has another shape
ObjectOutcomes(S) ==
    { Response(200, TRUE, <<x>>, "") : x \in S }
        \cup { Response(200, FALSE, <<>>, "[]") } \cup Failures

\* a 2xx response whose body is not read
EmptyOutcomes == { Response(204, TRUE, <<>>, "") } \cup Failures

----------------------------------------------------------------------------
(* tools/workout_library.py: delete_training_plan *)

\* a lookup that takes the first folder whatever its id
FindFolder_First(folders, folder_id) ==
    IF folders = <<>> THEN None ELSE Some(Head(folders))

\* for folder in folders: if folder.id == folder_id: ... break
RECURSIVE FindFolder(_, _)
FindFolder(folders, folder_id) ==
    IF folders = <<>> THEN None
    ELSE IF Head(folders).id = folder_id THEN Some(Head(folders))
    ELSE FindFolder(Tail(folders), folder_id)

delete_training_plan(folder_id) ==
    /\ Enter("delete_training_plan", [NoArgs EXCEPT !.folder_id = folder_id])
    /\ EnterScope(Request("GET", "/athlete/{athlete_id}/folders", 0, NoParams, NoJson),
                  [NoFrame EXCEPT !.step = "get_workout_folders"])

\* after folders = await client.get_workout_folders()
delete_training_plan_folders(o) ==
    /\ Answered("delete_training_plan", "get_workout_folders", o)
    /\ LET r == ParseBody(client, o)
           folder_to_delete == FindFolder(o.items, args.folder_id)
       IN  IF r.raised THEN Except(r.error)
           ELSE IF folder_to_delete = None
           THEN Return(build_error_response(
                    Msg("Folder/plan with ID {folder_id} not found", <<args.folder_id>>, <<>>),
                    "not_found"))
           ELSE Await(Request("DELETE", "/athlete/{athlete_id}/folders/{folder_id}",
                              args.folder_id, NoParams, NoJson),
                      [frame EXCEPT !.step = "delete_folder", !.folder = folder_to_delete])

\* the confirmation built without looking at what the remote answered
delete_training_plan_deleted_Unchecked(o) ==
    /\ Answered("delete_training_plan", "delete_folder", o)
    /\ Return(build_response(
           [deleted |-> TRUE, folder_id |-> args.folder_id,
            name |-> frame.folder[1].name,
            type |-> StrOr(frame.folder[1].type, "FOLDER")],
           [message |-> Msg("Successfully deleted {folder_type.lower()} '{folder_name}'",
                            <<>>, <<StrOr(frame.folder[1].type, "FOLDER")>> \o frame.folder[1].name),
            workouts_deleted |-> IntOr(frame.folder[1].num_workouts, 0)]))

\* after await client.delete_folder(folder_id)
delete_training_plan_deleted(o) ==
    /\ Answered("delete_training_plan", "delete_folder", o)
    /\ LET r == _request(client, o)
           folder_to_delete == frame.folder[1]
           folder_name == folder_to_delete.name
           folder_type == StrOr(folder_to_delete.type, "FOLDER")
           num_workouts == IntOr(folder_to_delete.num_workouts, 0)
       IN  IF r.raised THEN Except(r.error)
           ELSE Return(build_response(
                    [deleted |-> TRUE, folder_id |-> args.folder_id,
                     name |-> folder_name, type |-> folder_type],
                    [message |-> Msg("Successfully deleted {folder_type.lower()} '{folder_name}'",
                                     <<>>, <<folder_type>> \o folder_name),
                     workouts_deleted |-> num_workouts]))

----------------------------------------------------------------------------
(* The workouts of a caller: validation and defaults *)

\* the keys every workout must have, in the order the tools look for them
required_fields == <<"name", "type", "moving_time", "day">>

\* the keys the tools fill in
DefaultKeys == {"indoor", "attachments", "joules", "joules_above_ftp", "sub_type"}

\* workout["k"] = v
SetItem(f, k, v) == (k :> v) @@ f

\* workout["k"] = v whether the caller gave k or not
SetDefault_Always(f, k, v) == SetItem(f, k, v)

\* if "k" not in workout: workout["k"] = v
SetDefault(f, k, v) == IF k \in DOMAIN f THEN f ELSE SetItem(f, k, v)

\* the five defaults of a workout the caller left out
SetDefaults(f) ==
    SetDefault(
      SetDefault(
        SetDefault(
          SetDefault(
            SetDefault(f, "indoor", FALSE),
            "attachments", <<>>),
          "joules", 0),
        "joules_above_ftp", 0),
      "sub_type", "NONE")

\* the required fields looked for in reverse order
FirstMissing_Reversed(f, k) ==
    LET missing == {j \in k..Len(required_fields) : required_fields[j] \notin DOMAIN f}
    IN  IF missing = {} THEN ""
        ELSE required_fields[CHOOSE j \in missing : \A i \in missing : i <= j]

\* for field in required_fields: if field not in workout: the first such field,
\* from position k on, or "" when none is missing
RECURSIVE FirstMissing(_, _)
FirstMissing(f, k) ==
    IF k > Len(required_fields) THEN ""
    ELSE IF required_fields[k] \notin DOMAIN f THEN required_fields[k]
    ELSE FirstMissing(f, k + 1)

ValidationError(message) == build_error_response(message, "validation_error")

\* for i, workout in enumerate(workouts_list): the envelope of the first check
\* that fails from position p on, or NoError
NoError == [kind |-> "ok", type |-> "", message |-> Msg("", <<>>, <<>>),
            data |-> <<>>, analysis |-> <<>>]

RECURSIVE ValidateWorkouts(_, _)
ValidateWorkouts(list, p) ==
    IF p > Len(list) THEN NoError
    ELSE IF list[p].kind # "object"
    THEN ValidationError(Msg("Workout at index {i} must be an object", <<p - 1>>, <<>>))
    ELSE IF FirstMissing(list[p].fields, 1) # ""
    THEN ValidationError(Msg("Workout at index {i} missing required field: {field}",
                             <<p - 1>>, <<FirstMissing(list[p].fields, 1)>>))
    ELSE ValidateWorkouts(list, p + 1)

\* a loop that stops after the first workout
EnrichForPlan_First(list, folder_id) ==
    <<SetDefaults(SetItem(list[1].fields, "folder_id", folder_id))>>

\* the workouts as add_workouts_to_plan leaves them after its loop
EnrichForPlan(list, folder_id) ==
    [i \in 1..Len(list) |-> SetDefaults(SetItem(list[i].fields, "folder_id", folder_id))]

\* the workouts as create_training_plan leaves them after its loop
EnrichForCreate(list) ==
    [i \in 1..Len(list) |-> SetDefaults(list[i].fields)]

\* a folder_id the caller gave is kept
SetFolderId_Keep(list, folder_id) ==
    [i \in 1..Len(list) |-> SetDefault(list[i], "folder_id", folder_id)]

\* for workout in workouts_list: workout["folder_id"] = folder.id
SetFolderId(list, folder_id) ==
    [i \in 1..Len(list) |-> SetItem(list[i], "folder_id", folder_id)]

\* the summary both tools compute over the workouts the remote created
WorkoutItem(w) ==
    [id |-> w.id, name |-> w.name, type |-> w.type,
     duration_seconds |-> IF TruthyInt(w.moving_time) THEN w.moving_time ELSE None,
     training_load |-> IF TruthyInt(w.icu_training_load) THEN w.icu_training_load ELSE None,
     folder_id |-> IF TruthyInt(w.folder_id) THEN w.folder_id ELSE None]

WorkoutItems(created) == [i \in 1..Len(created) |-> WorkoutItem(created[i])]

total_duration(created) == SumSeq([i \in 1..Len(created) |-> IntOr(created[i].moving_time, 0)])

\* the load summed over the wrong field
total_load_OfDuration(created) == SumSeq([i \in 1..Len(created) |-> IntOr(created[i].moving_time, 0)])

total_load(created) == SumSeq([i \in 1..Len(created) |-> IntOr(created[i].icu_training_load, 0)])

----------------------------------------------------------------------------
(* tools/workout_library.py: add_workouts_to_plan *)

add_workouts_to_plan(folder_id, workouts) ==
    /\ Enter("add_workouts_to_plan",
             [NoArgs EXCEPT !.folder_id = folder_id, !.workouts = workouts])
    /\ LET parsed == json_loads(workouts)
           workouts_list == parsed.value.items
           invalid == ValidateWorkouts(workouts_list, 1)
       IN  IF parsed.raised /\ parsed.error.exc = "JSONDecodeError"
           THEN ReturnEarly(ValidationError(
                    Msg("Invalid JSON format: {e}", <<>>, parsed.error.message.strs)))
           ELSE IF parsed.raised
           THEN RaiseEarly(parsed.error)
           ELSE IF parsed.value.kind # "array"
           THEN ReturnEarly(ValidationError(Msg("workouts must be a JSON array", <<>>, <<>>)))
           ELSE IF Len(workouts_list) = 0
           THEN ReturnEarly(ValidationError(Msg("workouts array cannot be empty", <<>>, <<>>)))
           ELSE IF invalid # NoError
           THEN ReturnEarly(invalid)
           ELSE EnterScope(
                    Request("POST", "/athlete/{athlete_id}/workouts/bulk", 0, NoParams,
                            EnrichForPlan(workouts_list, folder_id)),
                    [NoFrame EXCEPT !.step = "bulk_create_workouts"])

\* after created_workouts = await client.bulk_create_workouts(workouts_list)
add_workouts_to_plan_created(o) ==
    /\ Answered("add_workouts_to_plan", "bulk_create_workouts", o)
    /\ LET r == ParseBody(client, o)
           created_workouts == o.items
       IN  IF r.raised THEN Except(r.error)
           ELSE Return(build_response(
                    [workouts |-> WorkoutItems(created_workouts),
                     summary |-> [count |-> Len(created_workouts),
                                  total_duration_seconds |-> total_duration(created_workouts),
                                  total_training_load |-> total_load(created_workouts)]],
                    [workouts_created |-> Len(created_workouts),
                     total_duration_seconds |-> total_duration(created_workouts),
                     total_training_load |-> total_load(created_workouts),
                     folder_id |-> args.folder_id]))

----------------------------------------------------------------------------
(* tools/workout_library.py: create_training_plan *)

\* days_until_monday without the case of a Monday
days_until_monday_Today(today) == (DaysPerWeek - weekday(today)) % DaysPerWeek

\* days_until_monday, for today: (7 - today.weekday()) % 7, and 7 on a Monday
days_until_monday(today) ==
    LET d == (DaysPerWeek - weekday(today)) % DaysPerWeek
    IN  IF d = 0 THEN DaysPerWeek ELSE d

\* next_monday = today + timedelta(days=days_until_monday)
next_monday(today) == today + days_until_monday(today)

\* plan_type in ["FOLDER", "PLAN"]
ValidPlanType(plan_type) == plan_type \in {"FOLDER", "PLAN"}

\* no check of visibility
ValidVisibility_Any(visibility) == TRUE

\* visibility in ["PRIVATE", "PUBLIC"]
ValidVisibility(visibility) == visibility \in {"PRIVATE", "PUBLIC"}

\* bool(s) of an optional string of the caller
TruthyText(s) == s # None /\ s[1].text # ""

\* folder_data: name, type and visibility, the description and the start date
\* when they are given
folder_data(name, plan_type, visibility, description, start_date) ==
    LET base == [name |-> name, type |-> plan_type, visibility |-> visibility]
        d == IF TruthyText(description) THEN SetItem(base, "description", description[1]) ELSE base
    IN  IF TruthyText(start_date) THEN SetItem(d, "start_date_local", start_date[1]) ELSE d

create_training_plan(name, plan_type, description, start_date, visibility, workouts) ==
    /\ Enter("create_training_plan",
             [NoArgs EXCEPT !.name = name, !.plan_type = plan_type,
                            !.description = description, !.start_date = start_date,
                            !.visibility = visibility, !.workouts = workouts])
    /\ LET given == workouts.form \notin {"none", "empty"}
           parsed == json_loads(workouts)
           workouts_list == parsed.value.items
           invalid == ValidateWorkouts(workouts_list, 1)
           auto_set_date == plan_type = "PLAN" /\ ~TruthyText(start_date)
           start == IF auto_set_date THEN Some(isoformat(next_monday(now))) ELSE start_date
       IN  IF ~ValidPlanType(plan_type)
           THEN ReturnEarly(ValidationError(
                    Msg("plan_type must be either 'FOLDER' or 'PLAN'", <<>>, <<>>)))
           ELSE IF ~ValidVisibility(visibility)
           THEN ReturnEarly(ValidationError(
                    Msg("visibility must be either 'PRIVATE' or 'PUBLIC'", <<>>, <<>>)))
           ELSE IF given /\ parsed.raised /\ parsed.error.exc = "JSONDecodeError"
           THEN ReturnEarly(ValidationError(
                    Msg("Invalid JSON format: {e}", <<>>, parsed.error.message.strs)))
           ELSE IF given /\ parsed.raised
           THEN RaiseEarly(parsed.error)
           ELSE IF given /\ parsed.value.kind # "array"
           THEN ReturnEarly(ValidationError(Msg("workouts must be a JSON array", <<>>, <<>>)))
           ELSE IF given /\ Len(workouts_list) = 0
           THEN ReturnEarly(ValidationError(Msg("workouts array cannot be empty", <<>>, <<>>)))
           ELSE IF given /\ invalid # NoError
           THEN ReturnEarly(invalid)
           ELSE EnterScope(
                    Request("POST", "/athlete/{athlete_id}/folders", 0, NoParams,
                            folder_data(name, plan_type, visibility, description, start)),
                    [NoFrame EXCEPT !.step = "create_folder",
                                    !.workouts_list =
                                        IF given THEN EnrichForCreate(workouts_list) ELSE <<>>,
                                    !.start_date = start,
                                    !.auto_set_date = auto_set_date])

\* result_data of the created folder
FolderResult(folder) ==
    [id |-> folder.id, name |-> folder.name, type |-> folder.type,
     visibility |-> folder.visibility,
     description |-> IF TruthyStr(folder.description) THEN folder.description ELSE None,
     start_date |-> IF folder.start_date_local # None THEN folder.start_date_local ELSE None,
     num_workouts |-> IF TruthyInt(folder.num_workouts) THEN folder.num_workouts ELSE None,
     workouts |-> <<>>, summary |-> None]

\* analysis_data of the created folder
FolderAnalysis(plan_type, name, start_date, auto_set_date) ==
    IF plan_type = "PLAN"
    THEN [type |-> "training_plan",
          message |-> Msg("Training plan '{name}' created successfully", <<>>, <<name>>),
          schedule |-> IF ~TruthyText(start_date) THEN None
                       ELSE IF auto_set_date
                       THEN Some([fmt |-> "Plan starts on {start_date} (auto-set to next Monday)",
                                  date |-> start_date[1]])
                       ELSE Some([fmt |-> "Plan starts on {start_date}", date |-> start_date[1]]),
          workouts_created |-> None]
    ELSE [type |-> "workout_folder",
          message |-> Msg("Workout folder '{name}' created successfully", <<>>, <<name>>),
          schedule |-> None,
          workouts_created |-> None]

\* after folder = await client.create_folder(folder_data)
create_training_plan_folder(o) ==
    /\ Answered("create_training_plan", "create_folder", o)
    /\ LET r == ParseBody(client, o)
           folder == o.items[1]
       IN  IF r.raised THEN Except(r.error)
           ELSE IF frame.workouts_list # <<>>
           THEN Await(Request("POST", "/athlete/{athlete_id}/workouts/bulk", 0, NoParams,
                              SetFolderId(frame.workouts_list, folder.id)),
                      [frame EXCEPT !.step = "bulk_create_workouts",
                                    !.folder = Some(folder),
                                    !.workouts_list = SetFolderId(frame.workouts_list, folder.id)])
           ELSE Return(build_response(
                    FolderResult(folder),
                    FolderAnalysis(args.plan_type, args.name, frame.start_date,
                                   frame.auto_set_date)))

\* after created_workouts = await client.bulk_create_workouts(workouts_list)
create_training_plan_created(o) ==
    /\ Answered("create_training_plan", "bulk_create_workouts", o)
    /\ LET r == ParseBody(client, o)
           created_workouts == o.items
           folder == frame.folder[1]
           analysis == FolderAnalysis(args.plan_type, args.name, frame.start_date,
                                      frame.auto_set_date)
       IN  IF r.raised THEN Except(r.error)
           ELSE Return(build_response(
                    [FolderResult(folder) EXCEPT
                        !.workouts = WorkoutItems(created_workouts),
                        !.num_workouts = Some(Len(created_workouts)),
                        !.summary = Some([count |-> Len(created_workouts),
                                          total_duration_seconds |-> total_duration(created_workouts),
                                          total_training_load |-> total_load(created_workouts)])],
                    IF created_workouts # <<>>
                    THEN [analysis EXCEPT !.workouts_created = Some(Len(created_workouts))]
                    ELSE analysis))

----------------------------------------------------------------------------
(* tools/events.py *)

\* list.sort(key=lambda x: x.start_date_local): a stable sort
RECURSIVE InsertByDate(_, _)
InsertByDate(x, sorted) ==
    IF sorted = <<>> THEN <<x>>
    ELSE IF StrLess(x.start_date_local, Head(sorted).start_date_local)
    THEN <<x>> \o sorted
    ELSE <<Head(sorted)>> \o InsertByDate(x, Tail(sorted))

\* the list left in the order the remote gave
SortByDate_Unsorted(events) == events

RECURSIVE SortByDate(_)
SortByDate(events) ==
    IF events = <<>> THEN <<>>
    ELSE InsertByDate(events[Len(events)], SortByDate(SubSeq(events, 1, Len(events) - 1)))

IsWorkout(e) == e.category = Some("WORKOUT")

CountCategory(events, c) == Len(SelectSeq(events, LAMBDA e : e.category = Some(c)))

\* the labels of get_upcoming_workouts used for the calendar
CalendarTiming_Tomorrow(date_obj, today) ==
    IF date_obj = today THEN [label |-> "today", n |-> 0]
    ELSE IF date_obj = today + 1 THEN [label |-> "tomorrow", n |-> 0]
    ELSE [label |-> "in_{n}_days", n |-> date_obj - today]

\* relative_timing in get_calendar_events
CalendarTiming(date_obj, today) ==
    IF date_obj = today THEN [label |-> "today", n |-> 0]
    ELSE IF date_obj < today THEN [label |-> "{n}_days_ago", n |-> today - date_obj]
    ELSE [label |-> "in_{n}_days", n |-> date_obj - today]

\* relative_timing in get_upcoming_workouts
UpcomingTiming(date_obj, today) ==
    IF date_obj = today THEN [label |-> "today", n |-> 0]
    ELSE IF date_obj = today + 1 THEN [label |-> "tomorrow", n |-> 0]
    ELSE [label |-> "in_{n}_days", n |-> date_obj - today]

\* event_item of get_calendar_events
CalendarItem(event, today) ==
    [id |-> event.id, date |-> split_T(event.start_date_local),
     relative_timing |-> CalendarTiming(split_T(event.start_date_local).day, today),
     category |-> event.category,
     training_load |-> IF IsWorkout(event) /\ TruthyInt(event.icu_training_load)
                       THEN event.icu_training_load ELSE None]

\* workout_item of get_upcoming_workouts
UpcomingItem(workout, today) ==
    [id |-> workout.id, date |-> split_T(workout.start_date_local),
     relative_timing |-> UpcomingTiming(split_T(workout.start_date_local).day, today),
     training_load |-> IF TruthyInt(workout.icu_training_load)
                       THEN workout.icu_training_load ELSE None]

\* events_by_date[date] = [] for every event, also when the date has a group
RECURSIVE GroupByDate_Reset(_, _)
GroupByDate_Reset(items, groups) ==
    IF items = <<>> THEN groups
    ELSE LET item == Head(items)
             at == {g \in 1..Len(groups) : groups[g].date = item.date}
         IN  IF at = {}
             THEN GroupByDate_Reset(Tail(items),
                                    Append(groups, [date |-> item.date, items |-> <<item>>]))
             ELSE GroupByDate_Reset(Tail(items),
                                    [g \in 1..Len(groups) |->
                                        IF g \in at
                                        THEN [groups[g] EXCEPT !.items = <<item>>]
                                        ELSE groups[g]])

\* events_by_date: the groups in the order their dates are first met, each with
\* its items in the order they are met
RECURSIVE GroupByDate(_, _)
GroupByDate(items, groups) ==
    IF items = <<>> THEN groups
    ELSE LET item == Head(items)
             at == {g \in 1..Len(groups) : groups[g].date = item.date}
         IN  IF at = {}
             THEN GroupByDate(Tail(items),
                              Append(groups, [date |-> item.date, items |-> <<item>>]))
             ELSE GroupByDate(Tail(items),
                              [g \in 1..Len(groups) |->
                                  IF g \in at
                                  THEN [groups[g] EXCEPT !.items = Append(@, item)]
                                  ELSE groups[g]])

\* some date of the list cannot be parsed: strptime raises ValueError
BadDate(events) == \E i \in 1..Len(events) : ~IsDate(split_T(events[i].start_date_local))

\* the two ends of the range passed in each other's place
EventsRequest_Swapped(oldest, newest) ==
    Request("GET", "/athlete/{athlete_id}/events", 0,
            [oldest |-> newest, newest |-> oldest], NoJson)

EventsRequest(oldest, newest) ==
    Request("GET", "/athlete/{athlete_id}/events", 0,
            [oldest |-> oldest, newest |-> newest], NoJson)

get_calendar_events(days_ahead, days_back) ==
    /\ Enter("get_calendar_events",
             [NoArgs EXCEPT !.days_ahead = days_ahead, !.days_back = days_back])
    /\ LET oldest == isoformat(now - days_back)
           newest == isoformat(now + days_ahead)
       IN  IF ~InDateRange(now - days_back) \/ ~InDateRange(now + days_ahead)
           THEN ReturnEarly(HandleError(PyError("OverflowError", "date value out of range")))
           ELSE EnterScope(EventsRequest(oldest, newest),
                           [NoFrame EXCEPT !.step = "get_events",
                                           !.oldest = oldest, !.newest = newest])

\* after events = await client.get_events(oldest, newest)
get_calendar_events_events(o) ==
    /\ Answered("get_calendar_events", "get_events", o)
    /\ LET r == ParseBody(client, o)
           events == SortByDate(o.items)
           today == now
           date_range == [oldest |-> frame.oldest, newest |-> frame.newest]
       IN  IF r.raised THEN Except(r.error)
           ELSE IF o.items = <<>>
           THEN Return(build_response(
                    [events |-> <<>>, count |-> 0, date_range |-> date_range], <<>>))
           ELSE IF BadDate(events)
           THEN Except(PyError("ValueError", "time data does not match format"))
           ELSE Return(build_response(
                    [events_by_date |->
                        GroupByDate([i \in 1..Len(events) |-> CalendarItem(events[i], today)],
                                    <<>>),
                     date_range |-> date_range,
                     summary |-> [total_events |-> Len(events),
                                  by_category |->
                                      [workouts |-> CountCategory(events, "WORKOUT"),
                                       races |-> CountCategory(events, "RACE"),
                                       notes |-> CountCategory(events, "NOTE"),
                                       goals |-> CountCategory(events, "GOAL")]]],
                    <<>>))

get_upcoming_workouts(limit) ==
    /\ Enter("get_upcoming_workouts", [NoArgs EXCEPT !.limit = limit])
    /\ LET oldest == isoformat(now)
           newest == isoformat(now + FetchWindowDays)
       IN  EnterScope(EventsRequest(oldest, newest),
                      [NoFrame EXCEPT !.step = "get_events",
                                      !.oldest = oldest, !.newest = newest])

\* the load summed over every workout found, before the list is cut to limit
get_upcoming_workouts_events_LoadOfFound(o) ==
    /\ Answered("get_upcoming_workouts", "get_events", o)
    /\ LET r == ParseBody(client, o)
           found == SelectSeq(o.items, IsWorkout)
           workouts == SliceTo(SortByDate(found), args.limit)
           today == now
           load == SumSeq([i \in 1..Len(found) |-> IntOr(found[i].icu_training_load, 0)])
       IN  IF r.raised THEN Except(r.error)
           ELSE IF found = <<>>
           THEN Return(build_response([workouts |-> <<>>, count |-> 0,
                                       total_planned_load |-> None], <<>>))
           ELSE IF BadDate(workouts)
           THEN Except(PyError("ValueError", "time data does not match format"))
           ELSE Return(build_response(
                    [workouts |-> [i \in 1..Len(workouts) |-> UpcomingItem(workouts[i], today)],
                     count |-> Len(workouts),
                     total_planned_load |-> IF load > 0 THEN Some(load) ELSE None],
                    <<>>))

\* after events = await client.get_events(oldest, newest)
get_upcoming_workouts_events(o) ==
    /\ Answered("get_upcoming_workouts", "get_events", o)
    /\ LET r == ParseBody(client, o)
           found == SelectSeq(o.items, IsWorkout)
           workouts == SliceTo(SortByDate(found), args.limit)
           today == now
           load == SumSeq([i \in 1..Len(workouts) |-> IntOr(workouts[i].icu_training_load, 0)])
       IN  IF r.raised THEN Except(r.error)
           ELSE IF found = <<>>
           THEN Return(build_response([workouts |-> <<>>, count |-> 0,
                                       total_planned_load |-> None], <<>>))
           ELSE IF BadDate(workouts)
           THEN Except(PyError("ValueError", "time data does not match format"))
           ELSE Return(build_response(
                    [workouts |-> [i \in 1..Len(workouts) |-> UpcomingItem(workouts[i], today)],
                     count |-> Len(workouts),
                     total_planned_load |-> IF load > 0 THEN Some(load) ELSE None],
                    <<>>))

get_event(event_id) ==
    /\ Enter("get_event", [NoArgs EXCEPT !.event_id = event_id])
    /\ EnterScope(Request("GET", "/athlete/{athlete_id}/events/{event_id}", event_id,
                          NoParams, NoJson),
                  [NoFrame EXCEPT !.step = "get_event"])

\* after event = await client.get_event(event_id)
get_event_event(o) ==
    /\ Answered("get_event", "get_event", o)
    /\ LET r == ParseBody(client, o)
           event == o.items[1]
       IN  IF r.raised THEN Except(r.error)
           ELSE Return(build_response(
                    [id |-> event.id, date |-> split_T(event.start_date_local),
                     category |-> event.category,
                     training_load |-> IF TruthyInt(event.icu_training_load)
                                       THEN event.icu_training_load ELSE None],
                    <<>>))

----------------------------------------------------------------------------
(* tools/workout_library.py: get_workout_library, get_workouts_in_folder *)

get_workout_library ==
    /\ Enter("get_workout_library", NoArgs)
    /\ EnterScope(Request("GET", "/athlete/{athlete_id}/folders", 0, NoParams, NoJson),
                  [NoFrame EXCEPT !.step = "get_workout_folders"])

\* folder_item of get_workout_library
FolderItem(folder) ==
    [id |-> folder.id, name |-> folder.name,
     num_workouts |-> IF TruthyInt(folder.num_workouts) THEN folder.num_workouts ELSE None,
     duration_weeks |-> IF TruthyInt(folder.duration_weeks) THEN folder.duration_weeks ELSE None]

\* the folders told apart by their type label
get_workout_library_folders_ByType(o) ==
    /\ Answered("get_workout_library", "get_workout_folders", o)
    /\ LET r == ParseBody(client, o)
           folders == o.items
           training_plans == SelectSeq(folders, LAMBDA f : f.type = Some("PLAN"))
           regular_folders == SelectSeq(folders, LAMBDA f : f.type # Some("PLAN"))
       IN  IF r.raised THEN Except(r.error)
           ELSE IF folders = <<>>
           THEN Return(build_response([folders |-> <<>>, count |-> 0], <<>>))
           ELSE Return(build_response(
                    [folders |-> [i \in 1..Len(folders) |-> FolderItem(folders[i])],
                     summary |->
                        [total_folders |-> Len(folders),
                         training_plans |-> Len(training_plans),
                         regular_folders |-> Len(regular_folders),
                         total_workouts |->
                            SumSeq([i \in 1..Len(folders) |-> IntOr(folders[i].num_workouts, 0)])]],
                    <<>>))

\* after folders = await client.get_workout_folders()
get_workout_library_folders(o) ==
    /\ Answered("get_workout_library", "get_workout_folders", o)
    /\ LET r == ParseBody(client, o)
           folders == o.items
           training_plans == SelectSeq(folders, LAMBDA f : f.duration_weeks # None)
           regular_folders == SelectSeq(folders, LAMBDA f : f.duration_weeks = None)
       IN  IF r.raised THEN Except(r.error)
           ELSE IF folders = <<>>
           THEN Return(build_response([folders |-> <<>>, count |-> 0], <<>>))
           ELSE Return(build_response(
                    [folders |-> [i \in 1..Len(folders) |-> FolderItem(folders[i])],
                     summary |->
                        [total_folders |-> Len(folders),
                         training_plans |-> Len(training_plans),
                         regular_folders |-> Len(regular_folders),
                         total_workouts |->
                            SumSeq([i \in 1..Len(folders) |-> IntOr(folders[i].num_workouts, 0)])]],
                    <<>>))

\* the workouts of a folder asked for with a POST
get_workouts_in_folder_Post(folder_id) ==
    /\ Enter("get_workouts_in_folder", [NoArgs EXCEPT !.folder_id = folder_id])
    /\ EnterScope(Request("POST", "/athlete/{athlete_id}/folders/{folder_id}/workouts",
                          folder_id, NoParams, NoJson),
                  [NoFrame EXCEPT !.step = "get_workouts_in_folder"])

get_workouts_in_folder(folder_id) ==
    /\ Enter("get_workouts_in_folder", [NoArgs EXCEPT !.folder_id = folder_id])
    /\ EnterScope(Request("GET", "/athlete/{athlete_id}/folders/{folder_id}/workouts",
                          folder_id, NoParams, NoJson),
                  [NoFrame EXCEPT !.step = "get_workouts_in_folder"])

\* after workouts = await client.get_workouts_in_folder(folder_id)
get_workouts_in_folder_workouts(o) ==
    /\ Answered("get_workouts_in_folder", "get_workouts_in_folder", o)
    /\ LET r == ParseBody(client, o)
           workouts == o.items
       IN  IF r.raised THEN Except(r.error)
           ELSE IF workouts = <<>>
           THEN Return(build_response(
                    [workouts |-> <<>>, count |-> 0, folder_id |-> args.folder_id], <<>>))
           ELSE Return(build_response(
                    [folder_id |-> args.folder_id,
                     workouts |-> WorkoutItems(workouts),
                     summary |-> [total_workouts |-> Len(workouts),
                                  total_duration_seconds |-> total_duration(workouts),
                                  total_training_load |-> total_load(workouts)]],
                    <<>>))

----------------------------------------------------------------------------
(* client.py: the list operations that take a limit or a count, called by a   *)
(* caller that holds the connection scope                                      *)

LimitedOps ==
    {"get_activities", "search_activities", "search_activities_full", "search_intervals"}

\* the request each operation sends
ListRequest(op, n) ==
    CASE op = "get_activities" ->
            Request("GET", "/athlete/{athlete_id}/activities", 0, NoParams, NoJson)
      [] op = "search_activities" ->
            Request("GET", "/athlete/{athlete_id}/activities/search", 0, [q |-> "ride"], NoJson)
      [] op = "search_activities_full" ->
            Request("GET", "/athlete/{athlete_id}/activities/search-full", 0, [q |-> "ride"], NoJson)
      [] op = "search_intervals" ->
            Request("GET", "/athlete/{athlete_id}/activities/interval-search", 0, NoParams, NoJson)
      [] op = "get_activities_around" ->
            Request("GET", "/athlete/{athlete_id}/activities-around", 0,
                    [id |-> "i1", count |-> n], NoJson)

\* the client operations of this section
ClientOps == LimitedOps \cup {"get_activities_around"}

\* client = ICUClient(config); await client.op(): the operation is called on a
\* client whose connection scope was never acquired; _request raises before it
\* sends anything, and would send the request past that check
client_unacquired(op) ==
    /\ Enter(op, NoArgs)
    /\ LET r == _request("none", Response(200, TRUE, <<>>, ""))
       IN  IF r.raised THEN RaiseEarly(r.error)
           ELSE /\ pc' = "awaiting"
                /\ result' = NoResult
                /\ frame' = [NoFrame EXCEPT !.step = "list"]
                /\ client' = "none"
                /\ calls' = <<ListRequest(op, 0)>>
                /\ outcomes' = <<>>

\* async with client: ...  then await client.op(): the operation is called on a
\* client whose connection scope was acquired and released; _request runs with
\* the session __aexit__ left behind
client_released(op) ==
    /\ Enter(op, NoArgs)
    /\ LET c == AExit(AEnter)
           r == _request(c, Response(200, TRUE, <<>>, ""))
       IN  /\ client' = c
           /\ outcomes' = <<>>
           /\ IF r.raised
              THEN /\ pc' = "raised"
                   /\ result' = Escaped(r.error)
                   /\ frame' = NoFrame
                   /\ calls' = <<>>
              ELSE /\ pc' = "awaiting"
                   /\ result' = NoResult
                   /\ frame' = [NoFrame EXCEPT !.step = "list"]
                   /\ calls' = <<ListRequest(op, 0)>>

\* async with ICUClient(config) as client: await client.op(limit=n)
client_list(op, n) ==
    /\ Enter(op, [NoArgs EXCEPT !.limit = n])
    /\ EnterScope(ListRequest(op, n), [NoFrame EXCEPT !.step = "list"])

\* no operation cuts the list it received
ListResult_Untruncated(op, items, n) == items

\* the operation's return value: return results[:limit], and the list as it is
\* for get_activities_around
ListResult(op, items, n) == IF op \in LimitedOps THEN SliceTo(items, n) ELSE items

\* an operation that sends its request again when it failed
client_list_response_Retry(o) ==
    /\ pc = "awaiting"
    /\ frame.step = "list"
    /\ outcomes' = Append(outcomes, o)
    /\ UNCHANGED <<tool, args, now, frame>>
    /\ LET r == IF tool = "search_intervals" THEN _request(client, o) ELSE ParseBody(client, o)
       IN  IF r.raised
           THEN /\ pc' = "awaiting"
                /\ calls' = Append(calls, calls[1])
                /\ UNCHANGED <<client, result>>
           ELSE /\ pc' = "returned"
                /\ client' = AExit(client)
                /\ calls' = calls
                /\ result' = [kind |-> "list", type |-> "", message |-> Msg("", <<>>, <<>>),
                              data |-> ListResult(tool, o.items, args.limit),
                              analysis |-> <<>>]

\* after response = await self._request(...)
client_list_response(o) ==
    /\ pc = "awaiting"
    /\ frame.step = "list"
    /\ outcomes' = Append(outcomes, o)
    /\ UNCHANGED <<tool, args, now, frame, calls>>
    /\ client' = AExit(client)
    /\ LET r == IF tool = "search_intervals" THEN _request(client, o) ELSE ParseBody(client, o)
       IN  IF r.raised
           THEN pc' = "raised" /\ result' = Escaped(r.error)
           ELSE pc' = "returned"
                /\ result' = [kind |-> "list", type |-> "", message |-> Msg("", <<>>, <<>>),
                              data |-> ListResult(tool, o.items, args.limit),
                              analysis |-> <<>>]

----------------------------------------------------------------------------
(* The host *)

\* the host takes the envelope (or the exception) of the finished invocation
Deliver ==
    /\ pc \in {"returned", "raised"}
    /\ pc' = "idle"
    /\ tool' = "none"
    /\ args' = NoArgs
    /\ frame' = NoFrame
    /\ client' = "none"
    /\ calls' = <<>>
    /\ outcomes' = <<>>
    /\ result' = NoResult
    /\ now' = now


\* midnight passes
Tick ==
    /\ now < FirstDay + DaysPerWeek - 1 + MaxTicks
    /\ now' = now + 1
    /\ UNCHANGED <<pc, tool, args, frame, client, calls, outcomes, result>>

----------------------------------------------------------------------------

FolderIds == {1, 2, 3}
DaysAhead == {0, 7, 3000000}
DaysBack == {0, 1}
Limits == {-1, 0, 1, 2, 7}
PlanTypes == {"PLAN", "FOLDER", "plan"}
Visibilities == {"PRIVATE", "PUBLIC", "SECRET"}
Descriptions == {None, Some(Str("twelve weeks", 0))}
StartDates == {None, Some(EmptyStr), Some(isoformat(FirstDay + 2))}

\* what a caller gives for each key of a workout
CallerValue(k) ==
    CASE k = "name" -> "Easy Run"
      [] k = "type" -> "Run"
      [] k = "moving_time" -> 1800
      [] k = "day" -> 1
      [] k = "indoor" -> TRUE
      [] k = "attachments" -> <<"plan.pdf">>
      [] k = "joules" -> 500
      [] k = "joules_above_ftp" -> 50
      [] k = "sub_type" -> "RACE"
      [] k = "folder_id" -> 777
      [] k = "color" -> "blue"

CallerObject(keys) == JObject([k \in keys |-> CallerValue(k)])

RequiredKeys == {"name", "type", "moving_time", "day"}
ExtraKeys == {"folder_id", "color"}

\* the JSON texts a caller gives in the invocations of Spec
WorkoutTexts ==
    { EmptyText, MalformedText, OverLimitText,
      TextOf(JNumber),
      TextOf(CallerObject(RequiredKeys)),
      TextOf(JArray(<<>>)),
      TextOf(JArray(<<JNumber>>)),
      TextOf(JArray(<<CallerObject(RequiredKeys)>>)),
      TextOf(JArray(<<CallerObject(RequiredKeys \cup DefaultKeys \cup ExtraKeys)>>)),
      TextOf(JArray(<<CallerObject(RequiredKeys \ {"day"})>>)),
      TextOf(JArray(<<CallerObject(RequiredKeys \cup {"indoor", "folder_id"}),
                      CallerObject({"name", "day"})>>)),
      TextOf(JArray(<<CallerObject(RequiredKeys \cup {"joules"}),
                      CallerObject(RequiredKeys \cup {"sub_type", "color"})>>)) }

Next ==
    \/ \E folder_id \in FolderIds : delete_training_plan(folder_id)
    \/ \E o \in ListOutcomes(FolderSet) : delete_training_plan_folders(o)
    \/ \E o \in EmptyOutcomes : delete_training_plan_deleted(o)
    \/ \E folder_id \in FolderIds, w \in WorkoutTexts : add_workouts_to_plan(folder_id, w)
    \/ \E o \in ListOutcomes(WorkoutSet) : add_workouts_to_plan_created(o)
    \/ \E plan_type \in PlanTypes, description \in Descriptions, start_date \in StartDates,
          visibility \in Visibilities, w \in {NoText} \cup WorkoutTexts :
            create_training_plan("Build", plan_type, description, start_date, visibility, w)
    \/ \E o \in ObjectOutcomes(FolderSet) : create_training_plan_folder(o)
    \/ \E o \in ListOutcomes(WorkoutSet) : create_training_plan_created(o)
    \/ \E days_ahead \in DaysAhead, days_back \in DaysBack :
            get_calendar_events(days_ahead, days_back)
    \/ \E o \in ListOutcomes(EventSet) : get_calendar_events_events(o)
    \/ \E limit \in Limits : get_upcoming_workouts(limit)
    \/ \E o \in ListOutcomes(EventSet) : get_upcoming_workouts_events(o)
    \/ \E event_id \in {1} : get_event(event_id)
    \/ \E o \in ObjectOutcomes(EventSet) : get_event_event(o)
    \/ get_workout_library
    \/ \E o \in ListOutcomes(FolderSet) : get_workout_library_folders(o)
    \/ \E folder_id \in FolderIds : get_workouts_in_folder(folder_id)
    \/ \E o \in ListOutcomes(WorkoutSet) : get_workouts_in_folder_workouts(o)
    \/ \E op \in ClientOps, n \in Limits : client_list(op, n)
    \/ \E op \in ClientOps : client_unacquired(op)
    \/ \E op \in ClientOps : client_released(op)
    \/ \E o \in ListOutcomes(ActivitySet) : client_list_response(o)
    \/ Deliver
    \/ Tick

Spec == Init /\ [][Next]_vars

----------------------------------------------------------------------------
(* The bulk tools on every small array of workouts *)

\* the keys a caller gives besides the required ones: none, one, or all of them
OptionalKeySets ==
    { {} } \cup { {k} : k \in DefaultKeys \cup ExtraKeys } \cup { DefaultKeys \cup ExtraKeys }

\* the elements of a caller's array: objects with every required key, objects
\* lacking some, and a number
WorkoutValues ==
    { CallerObject(RequiredKeys \cup o) : o \in OptionalKeySets }
        \cup { CallerObject(r) : r \in (SUBSET RequiredKeys) \ {RequiredKeys} }
        \cup { JNumber }

BulkTexts == { TextOf(JArray(items)) : items \in SeqsUpTo(WorkoutValues, MaxItems) }

InitBulk ==
    /\ pc = "idle"
    /\ tool = "none"
    /\ args = NoArgs
    /\ frame = NoFrame
    /\ client = "none"
    /\ calls = <<>>
    /\ outcomes = <<>>
    /\ result = NoResult
    /\ now = FirstDay

NextBulk ==
    \/ \E w \in BulkTexts : add_workouts_to_plan(1, w)
    \/ \E o \in ListOutcomes(WorkoutSet) : add_workouts_to_plan_created(o)
    \/ \E plan_type \in {"PLAN", "plan"}, visibility \in {"PUBLIC", "SECRET"}, w \in BulkTexts :
            create_training_plan("Build", plan_type, None, None, visibility, w)
    \/ \E o \in ObjectOutcomes(FolderSet) : create_training_plan_folder(o)
    \/ \E o \in ListOutcomes(WorkoutSet) : create_training_plan_created(o)
    \/ Deliver

SpecBulk == InitBulk /\ [][NextBulk]_vars

----------------------------------------------------------------------------
(* Tool invocations in flight at the same time.  The host may call a tool     *)
(* while another invocation is suspended at its await.  In this specification *)
(* pc, tool, args, calls, outcomes and result hold one value per invocation,  *)
(* and client holds the sessions that exist (client.state, by session) and    *)
(* the session each invocation's ICUClient holds (client.of, 0 for none).     *)
(* What a tool makes of the response body is left to Spec.                    *)

Invocations == 1..MaxInvocations

\* a session shared by the whole module
NewSession_Shared(state) == 1

\* self._client = httpx.AsyncClient(...): a session no other client holds
NewSession(state) == Len(state) + 1

\* the tools called concurrently and the first request of each
ConcurrentTools == {"get_upcoming_workouts", "get_event"}

FirstRequest(t) ==
    IF t = "get_upcoming_workouts"
    THEN EventsRequest(isoformat(now), isoformat(now + FetchWindowDays))
    ELSE Request("GET", "/athlete/{athlete_id}/events/{event_id}", 1, NoParams, NoJson)

InitConcurrent ==
    /\ pc = [i \in Invocations |-> "idle"]
    /\ tool = [i \in Invocations |-> "none"]
    /\ args = [i \in Invocations |-> NoArgs]
    /\ frame = NoFrame
    /\ client = [of |-> [i \in Invocations |-> 0], state |-> <<>>]
    /\ calls = [i \in Invocations |-> <<>>]
    /\ outcomes = [i \in Invocations |-> <<>>]
    /\ result = [i \in Invocations |-> NoResult]
    /\ now = FirstDay

\* invocation i enters async with ICUClient(config) as client and awaits its
\* first request, sent on the session of its own client
concurrent_invoke(i, t) ==
    /\ pc[i] = "idle"
    /\ Len(client.state) < MaxSessions
    /\ LET id == NewSession(client.state)
       IN  /\ client' = [of |-> [client.of EXCEPT ![i] = id],
                         state |-> IF id > Len(client.state)
                                   THEN Append(client.state, AEnter)
                                   ELSE [client.state EXCEPT ![id] = AEnter]]
           /\ calls' = [calls EXCEPT ![i] = <<[session |-> id, request |-> FirstRequest(t)]>>]
    /\ pc' = [pc EXCEPT ![i] = "awaiting"]
    /\ tool' = [tool EXCEPT ![i] = t]
    /\ UNCHANGED <<args, frame, outcomes, result, now>>

\* the request of invocation i completes: with the remote's answer when its
\* session is still open, with an error of the session when it was closed under
\* it; the scope is left, which closes the session of i's client, and the tool
\* returns
concurrent_answer(i, o) ==
    /\ pc[i] = "awaiting"
    /\ LET id == client.of[i]
           r == IF client.state[id] = "open"
                THEN ParseBody(client.state[id], o)
                ELSE [raised |-> TRUE,
                      error |-> PyError("RuntimeError", "the client has been closed")]
       IN  /\ result' = [result EXCEPT ![i] = IF r.raised THEN HandleError(r.error)
                                               ELSE build_response(o.items, <<>>)]
           /\ client' = [client EXCEPT !.state[id] = AExit(@)]
    /\ outcomes' = [outcomes EXCEPT ![i] = <<o>>]
    /\ pc' = [pc EXCEPT ![i] = "returned"]
    /\ UNCHANGED <<tool, args, frame, calls, now>>

\* the host takes the envelope of invocation i; its ICUClient is dropped
concurrent_deliver(i) ==
    /\ pc[i] = "returned"
    /\ pc' = [pc EXCEPT ![i] = "idle"]
    /\ tool' = [tool EXCEPT ![i] = "none"]
    /\ client' = [client EXCEPT !.of[i] = 0]
    /\ calls' = [calls EXCEPT ![i] = <<>>]
    /\ outcomes' = [outcomes EXCEPT ![i] = <<>>]
    /\ result' = [result EXCEPT ![i] = NoResult]
    /\ UNCHANGED <<args, frame, now>>

\* what the remote answers in this specification
ConcurrentOutcomes ==
    Failures \cup { Response(200, TRUE, <<>>, ""), Response(200, FALSE, <<>>, "{}") }

NextConcurrent ==
    \/ \E i \in Invocations, t \in ConcurrentTools : concurrent_invoke(i, t)
    \/ \E i \in Invocations, o \in ConcurrentOutcomes : concurrent_answer(i, o)
    \/ \E i \in Invocations : concurrent_deliver(i)

SpecConcurrent == InitConcurrent /\ [][NextConcurrent]_vars

----------------------------------------------------------------------------
(* The claims *)

ToolFunctions ==
    {"get_calendar_events", "get_upcoming_workouts", "get_event", "get_workout_library",
     "get_workouts_in_folder", "create_training_plan", "add_workouts_to_plan",
     "delete_training_plan"}

IsErrorEnvelope(type) == result.kind = "error" /\ result.type = type

\* the positions in calls of the requests with method m
CallsWith(m) == {i \in 1..Len(calls) : calls[i].method = m}

\* C1: every tool function ends by returning an envelope; no exception ever
\* leaves a tool function, whatever its arguments and whatever the remote answers.
C1_NoExceptionEscapes == tool \in ToolFunctions => pc # "raised"

\* the message of the client's error for a failed request, as client.py words it
ClientMessage(o) ==
    IF o.kind = "transport" THEN Msg("Request failed: {e}", <<>>, <<o.text>>)
    ELSE IF o.status = 401 THEN Msg("Unauthorized. Check your API key and athlete ID.", <<>>, <<>>)
    ELSE IF o.status = 404 THEN Msg("Resource not found.", <<>>, <<>>)
    ELSE IF o.status = 429 THEN Msg("Rate limit exceeded. Please try again later.", <<>>, <<>>)
    ELSE Msg("HTTP {status}: {text}", <<o.status>>, <<o.text>>)

\* C2: in every tool, a request answered by 401, 404, 429, another non-2xx status
\* or a transport failure ends the invocation with an api_error envelope whose
\* message is the client error's message, and that request is the invocation's last.
C2_RemoteFailureIsApiError ==
    tool \in ToolFunctions =>
        \A i \in 1..Len(outcomes) :
            ~IsSuccess(outcomes[i]) =>
                /\ pc = "returned"
                /\ IsErrorEnvelope("api_error")
                /\ result.message = ClientMessage(outcomes[i])
                /\ Len(calls) = i

\* a second request of an invocation was refused with 429 and the tool returned
C2_Witness ==
    /\ pc = "returned"
    /\ tool = "create_training_plan"
    /\ Len(outcomes) = 2
    /\ outcomes[2].status = 429
    /\ IsErrorEnvelope("api_error")

\* the folder list of delete_training_plan has arrived and could be read
ListFetched ==
    /\ tool = "delete_training_plan"
    /\ Len(outcomes) >= 1
    /\ IsSuccess(outcomes[1])
    /\ outcomes[1].valid

\* the positions in the fetched list of the folders with the id asked for
Matches == {i \in 1..Len(outcomes[1].items) : outcomes[1].items[i].id = args.folder_id}

\* C3: delete_training_plan with a folder_id that is not in the fetched list
\* returns a not_found error envelope and sends no DELETE.
C3_AbsentFolderNotFound ==
    (ListFetched /\ Matches = {}) =>
        /\ pc = "returned"
        /\ IsErrorEnvelope("not_found")
        /\ CallsWith("DELETE") = {}
        /\ Len(calls) = 1

\* the id was looked for in a list of other folders
C3_Witness ==
    /\ ListFetched
    /\ Matches = {}
    /\ Len(outcomes[1].items) = MaxItems
    /\ IsErrorEnvelope("not_found")

\* the folder of the fetched list that the tool deletes: the first with the id
Listed == outcomes[1].items[CHOOSE i \in Matches : \A j \in Matches : i <= j]

\* C4: delete_training_plan with a folder_id that is in the fetched list sends
\* exactly one DELETE, for that id and after the list GET has succeeded; it returns
\* deleted = true with the name, the type (FOLDER when the folder has none) and the
\* workout count of the listed folder only if the DELETE succeeded, and an api_error
\* envelope otherwise.
C4_PresentFolderDeleted ==
    tool = "delete_training_plan" =>
        /\ \A i \in CallsWith("DELETE") :
              /\ i = 2
              /\ calls[i].id = args.folder_id
              /\ calls[i].endpoint = "/athlete/{athlete_id}/folders/{folder_id}"
              /\ ListFetched
        /\ (ListFetched /\ Matches # {}) => CallsWith("DELETE") = {2}
        /\ (ListFetched /\ Matches # {} /\ pc = "returned") =>
              /\ Len(outcomes) = 2
              /\ IF IsSuccess(outcomes[2])
                 THEN /\ result.kind = "data"
                      /\ result.data =
                            [deleted |-> TRUE, folder_id |-> args.folder_id,
                             name |-> Listed.name,
                             type |-> IF Listed.type \in {None, Some("")}
                                      THEN "FOLDER" ELSE Listed.type[1]]
                      /\ result.analysis.workouts_deleted =
                            (IF Listed.num_workouts = None THEN 0 ELSE Listed.num_workouts[1])
                 ELSE IsErrorEnvelope("api_error")
        /\ result.kind = "data" =>
              /\ ListFetched /\ Matches # {}
              /\ Len(outcomes) = 2
              /\ IsSuccess(outcomes[2])

\* a folder without a type was deleted and is reported as a FOLDER
C4_Witness ==
    /\ tool = "delete_training_plan"
    /\ pc = "returned"
    /\ result.kind = "data"
    /\ Listed.type = None
    /\ result.data.type = "FOLDER"
    /\ Len(outcomes[1].items) > 1

\* C5: create_training_plan with plan_type outside {FOLDER, PLAN} or visibility
\* outside {PRIVATE, PUBLIC} returns a validation_error envelope without acquiring
\* a connection scope and without any request, whatever its other arguments.
C5_InvalidEnumRejected ==
    (/\ tool = "create_training_plan"
     /\ \/ args.plan_type \notin {"FOLDER", "PLAN"}
        \/ args.visibility \notin {"PRIVATE", "PUBLIC"}) =>
        /\ pc = "returned"
        /\ IsErrorEnvelope("validation_error")
        /\ calls = <<>>
        /\ client = "none"

\* a bad visibility was rejected although every other argument was good
C5_Witness ==
    /\ tool = "create_training_plan"
    /\ pc = "returned"
    /\ args.plan_type = "PLAN"
    /\ args.visibility = "SECRET"
    /\ args.workouts = TextOf(JArray(<<CallerObject(RequiredKeys)>>))
    /\ IsErrorEnvelope("validation_error")

\* a bulk tool was given the text of a JSON array
BulkArrayGiven ==
    /\ tool \in {"add_workouts_to_plan", "create_training_plan"}
    /\ args.workouts.form = "json"
    /\ args.workouts.value.kind = "array"

CallerArray == args.workouts.value.items

\* the order in which the claim looks for the required fields
ClaimedOrder == <<"name", "type", "moving_time", "day">>

\* the positions of the caller's workouts that lack a required field
Lacking ==
    {i \in 1..Len(CallerArray) :
        /\ CallerArray[i].kind = "object"
        /\ \E k \in 1..Len(ClaimedOrder) : ClaimedOrder[k] \notin DOMAIN CallerArray[i].fields}

LowestLacking == CHOOSE i \in Lacking : \A j \in Lacking : i <= j

\* the first field, in the claimed order, that the object f lacks
FirstLacked(f) ==
    ClaimedOrder[CHOOSE k \in 1..Len(ClaimedOrder) :
                    /\ ClaimedOrder[k] \notin DOMAIN f
                    /\ \A j \in 1..(k - 1) : ClaimedOrder[j] \in DOMAIN f]

\* the message names the lowest index lacking a field and the first field it lacks
NamesLowestLacking ==
    /\ result.message.fmt = "Workout at index {i} missing required field: {field}"
    /\ result.message.ints = <<LowestLacking - 1>>
    /\ result.message.strs = <<FirstLacked(CallerArray[LowestLacking].fields)>>

\* C6 as claimed: for add_workouts_to_plan and create_training_plan, an array in
\* which some workout lacks name, type, moving_time or day yields a validation_error
\* naming the lowest such index and the first field missing there, and no request.
C6_Original ==
    (BulkArrayGiven /\ Lacking # {}) =>
        /\ pc = "returned"
        /\ IsErrorEnvelope("validation_error")
        /\ NamesLowestLacking
        /\ calls = <<>>
        /\ client = "none"

\* C6 as amended: such an array always yields a validation_error and no request;
\* the message names the lowest index lacking a field and the first field missing
\* there when every element before that index is an object and, for
\* create_training_plan, plan_type and visibility are valid.
C6_MissingFieldRejected ==
    (BulkArrayGiven /\ Lacking # {}) =>
        /\ pc = "returned"
        /\ IsErrorEnvelope("validation_error")
        /\ calls = <<>>
        /\ client = "none"
        /\ ( /\ \A j \in 1..(LowestLacking - 1) : CallerArray[j].kind = "object"
             /\ tool = "create_training_plan" =>
                    /\ args.plan_type \in {"FOLDER", "PLAN"}
                    /\ args.visibility \in {"PRIVATE", "PUBLIC"} )
           => NamesLowestLacking

\* create_training_plan rejected a second workout that has a name and a type only
C6_Witness ==
    /\ BulkArrayGiven
    /\ tool = "create_training_plan"
    /\ Lacking = {2}
    /\ DOMAIN CallerArray[2].fields = {"name", "type"}
    /\ result.message.ints = <<1>>
    /\ result.message.strs = <<"moving_time">>

\* the default the claim gives for each key the tools fill in
ClaimedDefault(k) ==
    CASE k = "indoor" -> FALSE
      [] k = "attachments" -> <<>>
      [] k = "joules" -> 0
      [] k = "joules_above_ftp" -> 0
      [] k = "sub_type" -> "NONE"

\* the positions in calls of the bulk creations
BulkCalls == {i \in 1..Len(calls) : calls[i].endpoint = "/athlete/{athlete_id}/workouts/bulk"}

\* C7: every workout submitted by add_workouts_to_plan or create_training_plan
\* carries indoor, attachments, joules, joules_above_ftp and sub_type, each with
\* the caller's value when the caller gave one and with false, [], 0, 0, 'NONE'
\* otherwise; every other field of the caller except folder_id is submitted as given.
C7_DefaultsFilled ==
    \A c \in BulkCalls :
        /\ Len(calls[c].json) = Len(CallerArray)
        /\ \A i \in 1..Len(CallerArray) :
              LET given == CallerArray[i].fields
                  sent == calls[c].json[i]
              IN  /\ DOMAIN given \subseteq DOMAIN sent
                  /\ \A k \in {"indoor", "attachments", "joules", "joules_above_ftp", "sub_type"} :
                        /\ k \in DOMAIN sent
                        /\ sent[k] = IF k \in DOMAIN given THEN given[k] ELSE ClaimedDefault(k)
                  /\ \A k \in DOMAIN given \ {"folder_id"} : sent[k] = given[k]

\* create_training_plan submitted two workouts, one with the caller's sub_type and
\* one with the caller's joules, the other keys defaulted
C7_Witness ==
    /\ tool = "create_training_plan"
    /\ Len(calls) = 2
    /\ BulkCalls = {2}
    /\ Len(CallerArray) = 2
    /\ "sub_type" \in DOMAIN CallerArray[1].fields
    /\ "joules" \in DOMAIN CallerArray[2].fields
    /\ "sub_type" \notin DOMAIN CallerArray[2].fields

\* create_training_plan is called for a PLAN without a start date and gets as far
\* as sending the folder (this step and the next state)
AutoDatedCreate ==
    /\ pc = "idle"
    /\ pc' = "awaiting"
    /\ tool' = "create_training_plan"
    /\ args'.plan_type = "PLAN"
    /\ args'.start_date \in {None, Some(EmptyStr)}

\* Monday, by the proleptic ordinal: day 1 is a Monday
IsMonday(d) == (d - 1) % 7 = 0

\* C8: create_training_plan with plan_type PLAN and no start_date submits a
\* start_date_local that is a Monday strictly after the current date and at most 7
\* days after it; on a Monday it is today + 7.
C8_NextMonday ==
    [][AutoDatedCreate =>
          /\ "start_date_local" \in DOMAIN calls'[1].json
          /\ LET start == calls'[1].json.start_date_local
             IN  /\ start.text = "YYYY-MM-DD"
                 /\ IsMonday(start.day)
                 /\ start.day > now
                 /\ start.day <= now + 7
                 /\ IsMonday(now) => start.day = now + 7]_vars

\* on a Monday a PLAN without a start date was sent with the Monday after
C8_Witness ==
    /\ tool = "create_training_plan"
    /\ pc = "awaiting"
    /\ Len(calls) = 1
    /\ args.plan_type = "PLAN"
    /\ args.start_date = None
    /\ IsMonday(now)
    /\ calls[1].json.start_date_local = isoformat(now + 7)

\* C9: get_upcoming_workouts and the client's get_activities, search_activities,
\* search_activities_full and search_intervals never return more items than the
\* limit of the caller, for every integer limit and every remote response.
C9_CountWithinLimit ==
    pc = "returned" =>
        /\ (tool = "get_upcoming_workouts" /\ result.kind = "data") =>
              /\ result.data.count <= args.limit
              /\ Len(result.data.workouts) <= args.limit
        /\ tool \in LimitedOps => Len(result.data) <= args.limit

\* C10: a tool invocation that acquired a connection scope has released it by the
\* time the tool returns, whether it returns a result, returns early on an empty
\* result or a folder not found, or an error was raised inside the scope.
C10_ScopeReleased ==
    (tool \in ToolFunctions /\ pc \in {"returned", "raised"}) =>
        /\ client # "open"
        /\ calls # <<>> => client = "closed"

\* a tool returned an internal_error raised inside the scope, the scope released
C10_Witness ==
    /\ tool \in ToolFunctions
    /\ pc = "returned"
    /\ calls # <<>>
    /\ IsErrorEnvelope("internal_error")
    /\ client = "closed"

\* an operation of the client was called directly, outside the tools
ClientCalled == tool \in ClientOps /\ pc # "idle"

\* C11: a client operation called on a client whose connection scope was never
\* acquired fails with an error and no HTTP request is issued.
C11_UnacquiredFails ==
    (ClientCalled /\ client = "none") =>
        /\ pc = "raised"
        /\ result.kind = "exception"
        /\ result.type = "RuntimeError"
        /\ calls = <<>>
        /\ outcomes = <<>>

\* search_intervals was called on an unacquired client and raised
C11_Witness ==
    /\ tool = "search_intervals"
    /\ client = "none"
    /\ pc = "raised"
    /\ result.type = "RuntimeError"

\* the status the claim gives the client error of each failure
ClaimedStatus(o) == IF o.kind = "transport" THEN None ELSE Some(o.status)

\* C12: on an acquired client the outcome of the request decides the result: a
\* 2xx response raises no client error (and a well-formed one is returned); 401,
\* 404 and 429 raise the client error with that status; another non-2xx status
\* raises it with that status and a message holding the status and the body; a
\* transport failure raises it with no status.  All are ICUAPIError.
C12_OutcomeToResult ==
    (ClientCalled /\ client # "none" /\ Len(outcomes) = 1) =>
        LET o == outcomes[1] IN
        IF IsSuccess(o)
        THEN /\ result.type # "ICUAPIError"
             /\ o.valid => (pc = "returned" /\ result.kind = "list")
        ELSE /\ pc = "raised"
             /\ result.kind = "exception"
             /\ result.type = "ICUAPIError"
             /\ result.data.status_code = ClaimedStatus(o)
             /\ (o.kind = "response" /\ o.status \notin {401, 404, 429}) =>
                   /\ result.message.ints = <<o.status>>
                   /\ result.message.strs = <<o.text>>

\* a transport failure raised the client error without a status
C12_Witness ==
    /\ ClientCalled
    /\ Len(outcomes) = 1
    /\ outcomes[1].kind = "transport"
    /\ result.type = "ICUAPIError"
    /\ result.data.status_code = None

\* C13: a client operation sends at most one request per call and a tool one per
\* operation it awaits; once a request has failed, the operation has ended by
\* raising, and neither it nor the tool that awaited it sends another request.
C13_NoRetry ==
    /\ ClientCalled =>
          /\ Len(calls) <= 1
          /\ outcomes # <<>> => pc \in {"returned", "raised"}
          /\ \A i \in 1..Len(outcomes) : ~IsSuccess(outcomes[i]) => pc = "raised"
    /\ tool \in ToolFunctions =>
          /\ Len(calls) <= Len(outcomes) + 1
          /\ pc # "awaiting" => Len(calls) = Len(outcomes)
          /\ \A i \in 1..Len(outcomes) :
                ~IsSuccess(outcomes[i]) => (i = Len(calls) /\ pc # "awaiting")

\* get_activities was refused with 429 and ended with its one request
C13_Witness ==
    /\ tool = "get_activities"
    /\ Len(calls) = 1
    /\ Len(outcomes) = 1
    /\ outcomes[1].status = 429
    /\ pc = "raised"

\* the invocations that hold a connection scope or have just left it
InFlight == {i \in Invocations : pc[i] # "idle"}

\* C14: concurrent tool invocations never share connection state: each has a
\* session of its own, the request of each is sent on its own session, and while
\* an invocation awaits its request its session is open, whatever scopes the
\* other invocations have released meanwhile.
C14_SessionsNotShared ==
    /\ \A i \in InFlight :
          /\ client.of[i] \in 1..Len(client.state)
          /\ \A c \in 1..Len(calls[i]) : calls[i][c].session = client.of[i]
          /\ pc[i] = "awaiting" => client.state[client.of[i]] = "open"
          /\ pc[i] = "returned" => client.state[client.of[i]] = "closed"
    /\ \A i, j \in InFlight : i # j => client.of[i] # client.of[j]

\* one invocation has released its scope while another, started before that
\* release, still awaits its request on an open session
C14_Witness ==
    /\ pc[1] = "returned"
    /\ pc[2] = "awaiting"
    /\ client.of[2] < client.of[1]
    /\ client.state[client.of[1]] = "closed"
    /\ client.state[client.of[2]] = "open"

\* the bulk call at position c of calls carries every workout of the caller, in
\* the caller's order
WholeBatch(c) ==
    /\ Len(calls[c].json) = Len(CallerArray)
    /\ \A i \in 1..Len(CallerArray) :
          /\ CallerArray[i].kind = "object"
          /\ \A k \in RequiredKeys :
                /\ k \in DOMAIN calls[c].json[i]
                /\ k \in DOMAIN CallerArray[i].fields
                /\ calls[c].json[i][k] = CallerArray[i].fields[k]

\* C15 as claimed: a finished invocation of add_workouts_to_plan or
\* create_training_plan with workouts has either returned a validation error
\* without any network call or submitted the whole batch in one single bulk call.
C15_Original ==
    (BulkArrayGiven /\ pc \in {"returned", "raised"}) =>
        \/ IsErrorEnvelope("validation_error") /\ calls = <<>>
        \/ \E c \in 1..Len(calls) : BulkCalls = {c} /\ WholeBatch(c)

\* C15 as amended: a strict subset of the batch is never submitted and no partial
\* success is reported: there is at most one bulk call, it is the last request of
\* the invocation and carries the whole batch in the caller's order; a validation
\* error is returned before any network call; a success is returned only after
\* that bulk call succeeded.  The batch also goes unsubmitted, with an error that
\* is no validation error, when the folder of create_training_plan cannot be
\* created.
C15_AllOrNothing ==
    BulkArrayGiven =>
        /\ Cardinality(BulkCalls) <= 1
        /\ \A c \in BulkCalls : c = Len(calls) /\ WholeBatch(c)
        /\ IsErrorEnvelope("validation_error") => calls = <<>>
        /\ result.kind = "data" =>
              /\ BulkCalls = {Len(calls)}
              /\ Len(outcomes) = Len(calls)
              /\ IsSuccess(outcomes[Len(outcomes)])
        /\ (pc = "returned" /\ BulkCalls = {}) =>
              /\ result.kind = "error"
              /\ result.type # "validation_error" =>
                    /\ tool = "create_training_plan"
                    /\ Len(calls) = 1
                    /\ calls[1].method = "POST"
                    /\ calls[1].endpoint = "/athlete/{athlete_id}/folders"

\* add_workouts_to_plan submitted a batch of two and the remote refused it
C15_Witness ==
    /\ BulkArrayGiven
    /\ tool = "add_workouts_to_plan"
    /\ pc = "returned"
    /\ Len(CallerArray) = 2
    /\ BulkCalls = {1}
    /\ IsErrorEnvelope("api_error")

\* the result is a validation error with this message, returned without a request
Rejected(fmt) ==
    /\ pc = "returned"
    /\ IsErrorEnvelope("validation_error")
    /\ result.message.fmt = fmt
    /\ calls = <<>>
    /\ client = "none"

\* C16: add_workouts_to_plan returns a validation_error and makes no network call
\* when the workouts text is not parseable JSON ('Invalid JSON ...'), else when it
\* parses to something that is no array, else when the array is empty ('...
\* cannot be empty'), else when an element is not an object.
C16_ValidationOrder ==
    (tool = "add_workouts_to_plan" /\ pc # "idle") =>
        IF args.workouts.form # "json"
        THEN Rejected("Invalid JSON format: {e}")
        ELSE IF args.workouts.value.kind # "array"
        THEN Rejected("workouts must be a JSON array")
        ELSE IF CallerArray = <<>>
        THEN Rejected("workouts array cannot be empty")
        ELSE (\E i \in 1..Len(CallerArray) : CallerArray[i].kind # "object") =>
                /\ pc = "returned"
                /\ IsErrorEnvelope("validation_error")
                /\ calls = <<>>

\* an optional number, an absent one counted as 0
OrZero(x) == IF x = None THEN 0 ELSE x[1]

\* C17: on success add_workouts_to_plan lists the workouts the remote returned, in
\* the remote's order, and reports over exactly those: summary.count is their
\* number, total_duration_seconds the sum of their moving_time and
\* total_training_load the sum of their icu_training_load, an absent value counted
\* as 0; analysis.workouts_created equals summary.count and analysis.folder_id
\* the folder_id argument.
C17_SummaryOfCreated ==
    (tool = "add_workouts_to_plan" /\ pc = "returned" /\ result.kind = "data") =>
        LET created == outcomes[1].items
            listed == result.data.workouts
            summary == result.data.summary
        IN  /\ Len(listed) = Len(created)
            /\ \A i \in 1..Len(created) : listed[i].id = created[i].id
            /\ summary.count = Len(created)
            /\ summary.total_duration_seconds =
                  SumSeq([i \in 1..Len(created) |-> OrZero(created[i].moving_time)])
            /\ summary.total_training_load =
                  SumSeq([i \in 1..Len(created) |-> OrZero(created[i].icu_training_load)])
            /\ result.analysis.workouts_created = summary.count
            /\ result.analysis.folder_id = args.folder_id

\* two workouts were created, the second without duration or load
C17_Witness ==
    /\ tool = "add_workouts_to_plan"
    /\ pc = "returned"
    /\ result.kind = "data"
    /\ Len(outcomes[1].items) = 2
    /\ outcomes[1].items[1].icu_training_load = Some(30)
    /\ outcomes[1].items[2].moving_time = None
    /\ result.data.summary.total_training_load = 30
    /\ args.folder_id = 3

\* C18: get_calendar_events, when the remote returns no event for the range,
\* returns a success envelope whose data is exactly events = [], count = 0 and
\* date_range = the oldest and newest sent to the remote; it has no events_by_date
\* and no summary.
C18_EmptyCalendar ==
    (/\ tool = "get_calendar_events"
     /\ pc = "returned"
     /\ Len(outcomes) = 1
     /\ IsSuccess(outcomes[1])
     /\ outcomes[1].valid
     /\ outcomes[1].items = <<>>) =>
        /\ result.kind = "data"
        /\ DOMAIN result.data = {"events", "count", "date_range"}
        /\ result.data.events = <<>>
        /\ result.data.count = 0
        /\ DOMAIN result.data.date_range = {"oldest", "newest"}
        /\ result.data.date_range.oldest = calls[1].params.oldest
        /\ result.data.date_range.newest = calls[1].params.newest

\* an empty calendar was reported for a range of eight days
C18_Witness ==
    /\ tool = "get_calendar_events"
    /\ pc = "returned"
    /\ Len(outcomes) = 1
    /\ args.days_back = 1
    /\ args.days_ahead = 7
    /\ IsSuccess(outcomes[1])
    /\ outcomes[1].items = <<>>
    /\ result.kind = "data"
    /\ result.data.count = 0
    /\ result.data.date_range.newest.day = result.data.date_range.oldest.day + 8

\* the items of the calendar a finished get_calendar_events reports, group after
\* group
CalendarGroups ==
    IF /\ tool = "get_calendar_events"
       /\ result.kind = "data"
       /\ "events_by_date" \in DOMAIN result.data
    THEN result.data.events_by_date ELSE <<>>

\* the workouts a finished get_upcoming_workouts reports
UpcomingListed ==
    IF tool = "get_upcoming_workouts" /\ result.kind = "data"
    THEN result.data.workouts ELSE <<>>

\* C19: within one invocation of get_calendar_events or get_upcoming_workouts all
\* relative-timing labels are computed against the date that was used to compute
\* the fetch window, also when the local date changes during the invocation.
C19_FixedToday ==
    /\ \A g \in 1..Len(CalendarGroups) :
          \A i \in 1..Len(CalendarGroups[g].items) :
              LET item == CalendarGroups[g].items[i]
              IN  item.relative_timing =
                      CalendarTiming(item.date.day, calls[1].params.oldest.day + args.days_back)
    /\ \A i \in 1..Len(UpcomingListed) :
          UpcomingListed[i].relative_timing =
              UpcomingTiming(UpcomingListed[i].date.day, calls[1].params.oldest.day)

\* get_calendar_events receives the events and returns them grouped (this step)
CalendarLabelled ==
    /\ pc = "awaiting"
    /\ tool = "get_calendar_events"
    /\ pc' = "returned"
    /\ result'.kind = "data"
    /\ "events_by_date" \in DOMAIN result'.data

\* C20: in get_calendar_events every event is reported once, labelled 'today' if
\* and only if its date is the current local date, '{n}_days_ago' with
\* n = today - date >= 1 if and only if its date is before today, and
\* 'in_{n}_days' with n = date - today >= 1 if and only if it is after today; a
\* date one day ahead is 'in_1_days', never 'tomorrow'.
C20_CalendarLabels ==
    [][CalendarLabelled =>
          LET groups == result'.data.events_by_date
              received == outcomes'[1].items
          IN  /\ SumSeq([g \in 1..Len(groups) |-> Len(groups[g].items)]) = Len(received)
              /\ \A e \in 1..Len(received) :
                    \E g \in 1..Len(groups) : \E i \in 1..Len(groups[g].items) :
                        groups[g].items[i].id = received[e].id
              /\ \A g \in 1..Len(groups) : \A i \in 1..Len(groups[g].items) :
                    LET date == groups[g].items[i].date.day
                        timing == groups[g].items[i].relative_timing
                    IN  /\ timing.label \in {"today", "{n}_days_ago", "in_{n}_days"}
                        /\ timing.label = "today" <=> date = now
                        /\ timing.label = "{n}_days_ago" <=> date < now
                        /\ timing.label = "in_{n}_days" <=> date > now
                        /\ timing.label = "{n}_days_ago" => (timing.n = now - date /\ timing.n >= 1)
                        /\ timing.label = "in_{n}_days" => (timing.n = date - now /\ timing.n >= 1)
                        /\ date = now + 1 => (timing.label = "in_{n}_days" /\ timing.n = 1)]_vars

\* a calendar was returned with an event of yesterday and one of tomorrow
C20_Witness ==
    /\ pc = "returned"
    /\ Len(CalendarGroups) = 2
    /\ CalendarGroups[1].items[1].relative_timing = [label |-> "{n}_days_ago", n |-> 1]
    /\ CalendarGroups[2].items[1].relative_timing = [label |-> "in_{n}_days", n |-> 1]

\* C21: in get_upcoming_workouts every returned workout is labelled 'today',
\* 'tomorrow', 'in_{n}_days' with n >= 2 or '{n}_days_ago' with n >= 1; no label
\* carries a zero or negative day count.
C21_UpcomingLabels ==
    \A i \in 1..Len(UpcomingListed) :
        LET timing == UpcomingListed[i].relative_timing
        IN  /\ timing.label \in {"today", "tomorrow", "in_{n}_days", "{n}_days_ago"}
            /\ timing.label = "in_{n}_days" => timing.n >= 2
            /\ timing.label = "{n}_days_ago" => timing.n >= 1

\* get_upcoming_workouts is called and sends its request (this step)
UpcomingInvoked ==
    /\ pc = "idle"
    /\ pc' = "awaiting"
    /\ tool' = "get_upcoming_workouts"

\* get_upcoming_workouts, called with a limit that is not negative, receives the
\* events and returns workouts (this step)
UpcomingReturned ==
    /\ pc = "awaiting"
    /\ tool = "get_upcoming_workouts"
    /\ args.limit >= 0
    /\ pc' = "returned"
    /\ result'.kind = "data"

\* the list returned holds the m earliest of the received events at the positions
\* W, in ascending order of start_date_local
EarliestOf(returned, received, W, m) ==
    /\ Len(returned) = m
    /\ \E f \in [1..m -> W] :
          /\ \A i, j \in 1..m : i # j => f[i] # f[j]
          /\ \A i \in 1..m : returned[i].id = received[f[i]].id
          /\ \A i, j \in 1..m :
                i < j => ~StrLess(received[f[j]].start_date_local,
                                  received[f[i]].start_date_local)
          /\ \A p \in W \ {f[i] : i \in 1..m} : \A i \in 1..m :
                ~StrLess(received[p].start_date_local, received[f[i]].start_date_local)

\* C22: get_upcoming_workouts fetches the events of [today, today + 30 days]
\* whatever its limit, and for every limit that is not negative returns exactly
\* the min(limit, k) earliest, by start_date_local, of the k fetched events of
\* category WORKOUT, in ascending order; no event of another category is returned.
C22_UpcomingSelection ==
    [][/\ UpcomingInvoked =>
             /\ Len(calls') = 1
             /\ calls'[1].method = "GET"
             /\ calls'[1].endpoint = "/athlete/{athlete_id}/events"
             /\ DOMAIN calls'[1].params = {"oldest", "newest"}
             /\ calls'[1].params.oldest = [text |-> "YYYY-MM-DD", day |-> now]
             /\ calls'[1].params.newest = [text |-> "YYYY-MM-DD", day |-> now + 30]
       /\ UpcomingReturned =>
             LET received == outcomes'[1].items
                 W == {p \in 1..Len(received) : received[p].category = Some("WORKOUT")}
                 m == IF args.limit < Cardinality(W) THEN args.limit ELSE Cardinality(W)
             IN  EarliestOf(result'.data.workouts, received, W, m)]_vars

\* of two workouts received latest first, the earlier one alone was returned
C22_Witness ==
    /\ tool = "get_upcoming_workouts"
    /\ pc = "returned"
    /\ args.limit = 1
    /\ Len(outcomes[1].items) = 2
    /\ outcomes[1].items[1].id = 1
    /\ outcomes[1].items[2].id = 4
    /\ Len(UpcomingListed) = 1
    /\ UpcomingListed[1].id = 4

\* the events get_calendar_events received
CalendarReceived == outcomes[1].items

\* the date part of a start_date_local as the claim gives it: the text before the
\* first 'T', the whole text when there is none
BeforeT(s) == IF s.text = "YYYY-MM-DDTHH:MM:SS" THEN [text |-> "YYYY-MM-DD", day |-> s.day] ELSE s

\* the received event an item of the calendar was made from
ReceivedAs(item) ==
    CalendarReceived[CHOOSE p \in 1..Len(CalendarReceived) : CalendarReceived[p].id = item.id]

\* C23: get_calendar_events with a non-empty result places every fetched event in
\* exactly one group of events_by_date, the group keyed by the text of its
\* start_date_local before the first 'T'; the keys are in ascending date order,
\* the items of a group in ascending start_date_local order, and
\* summary.total_events is the number of grouped items.
C23_CalendarGroups ==
    CalendarGroups # <<>> =>
        /\ \A p \in 1..Len(CalendarReceived) :
              LET e == CalendarReceived[p]
                  copies == Cardinality({q \in 1..Len(CalendarReceived) :
                                            CalendarReceived[q].id = e.id})
                  holding == {g \in 1..Len(CalendarGroups) :
                                 \E i \in 1..Len(CalendarGroups[g].items) :
                                     CalendarGroups[g].items[i].id = e.id}
              IN  /\ Cardinality(holding) = 1
                  /\ \A g \in holding :
                        /\ CalendarGroups[g].date = BeforeT(e.start_date_local)
                        /\ Cardinality({i \in 1..Len(CalendarGroups[g].items) :
                                           CalendarGroups[g].items[i].id = e.id}) = copies
        /\ \A g \in 1..Len(CalendarGroups) :
              /\ CalendarGroups[g].items # <<>>
              /\ \A i \in 1..Len(CalendarGroups[g].items) :
                    \E p \in 1..Len(CalendarReceived) :
                        CalendarReceived[p].id = CalendarGroups[g].items[i].id
              /\ \A i, j \in 1..Len(CalendarGroups[g].items) :
                    i < j => ~StrLess(ReceivedAs(CalendarGroups[g].items[j]).start_date_local,
                                      ReceivedAs(CalendarGroups[g].items[i]).start_date_local)
        /\ \A g, h \in 1..Len(CalendarGroups) :
              g < h => CalendarGroups[g].date.day < CalendarGroups[h].date.day
        /\ result.data.summary.total_events =
              SumSeq([g \in 1..Len(CalendarGroups) |-> Len(CalendarGroups[g].items)])
        /\ result.data.summary.total_events = Len(CalendarReceived)

\* two events of one day, the one with a time of day received first, were put in
\* one group, the plain date first
C23_Witness ==
    /\ Len(CalendarGroups) = 1
    /\ Len(CalendarReceived) = 2
    /\ CalendarReceived[1].start_date_local.text = "YYYY-MM-DDTHH:MM:SS"
    /\ CalendarReceived[2].start_date_local.text = "YYYY-MM-DD"
    /\ Len(CalendarGroups[1].items) = 2
    /\ CalendarGroups[1].items[1].id = CalendarReceived[2].id

\* the received event a returned workout was made from
FetchedAs(item) ==
    outcomes[1].items[CHOOSE p \in 1..Len(outcomes[1].items) : outcomes[1].items[p].id = item.id]

C25_PlansAndFolders ==
    (/\ tool = "get_workout_library"
     /\ pc = "returned"
     /\ result.kind = "data"
     /\ outcomes[1].items # <<>>) =>
        LET folders == outcomes[1].items
            summary == result.data.summary
        IN  /\ summary.training_plans =
                  Cardinality({p \in 1..Len(folders) : folders[p].duration_weeks # None})
            /\ summary.regular_folders =
                  Cardinality({p \in 1..Len(folders) : folders[p].duration_weeks = None})
            /\ summary.total_folders = Len(folders)
            /\ summary.training_plans + summary.regular_folders = summary.total_folders

\* a folder of type PLAN without a duration was counted as a regular folder next
\* to a training plan
C25_Witness ==
    /\ tool = "get_workout_library"
    /\ pc = "returned"
    /\ result.kind = "data"
    /\ Len(outcomes[1].items) = 2
    /\ outcomes[1].items[1].type = Some("PLAN")
    /\ outcomes[1].items[1].duration_weeks = None
    /\ outcomes[1].items[2].duration_weeks = Some(12)
    /\ result.data.summary.training_plans = 1
    /\ result.data.summary.regular_folders = 1

\* C26: within one tool invocation at most one network call is in flight at any
\* time, each call issued only after the answer to the one before it; in
\* create_training_plan with workouts the bulk-create call is issued only after
\* create_folder has returned successfully, and every workout in it carries the
\* id create_folder returned as folder_id, whatever folder_id the caller gave.
C26_SequentialCalls ==
    /\ Len(calls) <= Len(outcomes) + 1
    /\ Len(calls) = Len(outcomes) + 1 <=> pc = "awaiting"
    /\ (tool = "create_training_plan" /\ Len(calls) >= 2) =>
          /\ calls[1] = Request("POST", "/athlete/{athlete_id}/folders", 0, NoParams,
                                calls[1].json)
          /\ IsSuccess(outcomes[1])
          /\ outcomes[1].valid
          /\ calls[2].method = "POST"
          /\ calls[2].endpoint = "/athlete/{athlete_id}/workouts/bulk"
          /\ calls[2].json # <<>>
          /\ \A i \in 1..Len(calls[2].json) :
                calls[2].json[i]["folder_id"] = outcomes[1].items[1].id

\* the caller gave a workout with a folder_id of its own, and the bulk-create call
\* in flight carries the id of the folder just created
C26_Witness ==
    /\ tool = "create_training_plan"
    /\ pc = "awaiting"
    /\ Len(calls) = 2
    /\ Len(outcomes) = 1
    /\ args.workouts.form = "json"
    /\ args.workouts.value.kind = "array"
    /\ Len(args.workouts.value.items) = 1
    /\ "folder_id" \in DOMAIN args.workouts.value.items[1].fields
    /\ args.workouts.value.items[1].fields["folder_id"] = CallerValue("folder_id")
    /\ outcomes[1].items[1].id = 4
    /\ calls[2].json[1]["folder_id"] = 4

\* C27: get_activities, search_activities, search_activities_full and
\* search_intervals never send the limit to the server and, for a limit >= 0,
\* return the first min(limit, n) records of the n the server answered, in the
\* server's order; get_activities_around sends its count as a query parameter and
\* returns the server's list as it is.
C27_LimitNotSent ==
    /\ (tool \in LimitedOps /\ calls # <<>>) =>
          /\ "limit" \notin DOMAIN calls[1].params
          /\ "count" \notin DOMAIN calls[1].params
    /\ (tool \in LimitedOps /\ pc = "returned" /\ args.limit >= 0) =>
          /\ result.kind = "list"
          /\ result.data = SubSeq(outcomes[1].items, 1, Min(args.limit, Len(outcomes[1].items)))
    /\ (tool = "get_activities_around" /\ calls # <<>>) =>
          /\ "count" \in DOMAIN calls[1].params
          /\ calls[1].params.count = args.limit
    /\ (tool = "get_activities_around" /\ pc = "returned") =>
          /\ result.kind = "list"
          /\ result.data = outcomes[1].items

\* a limited operation returned one record of the two the server answered, and
\* its request carried no limit
C27_Witness ==
    /\ tool \in LimitedOps
    /\ pc = "returned"
    /\ args.limit = 1
    /\ Len(outcomes[1].items) = 2
    /\ result.data = <<outcomes[1].items[1]>>
    /\ "limit" \notin DOMAIN calls[1].params

\* the folder create_training_plan asked the remote to create exists there
FolderCreated ==
    /\ tool = "create_training_plan"
    /\ Len(outcomes) >= 1
    /\ calls[1].method = "POST"
    /\ IsSuccess(outcomes[1])

\* C28: create_training_plan is all-or-nothing towards the remote: whenever it
\* returns an error envelope, its invocation has created no folder on the remote;
\* a failed bulk creation of the workouts leaves no created folder behind that the
\* response does not report.
C28_AllOrNothing ==
    (tool = "create_training_plan" /\ pc = "returned" /\ result.kind = "error") =>
        ~FolderCreated

\* the remote created the folder and failed the bulk creation; the tool returned
\* an error envelope and sent no DELETE for the folder
C28_FolderLeftBehind ==
    /\ FolderCreated
    /\ pc = "returned"
    /\ result.kind = "error"
    /\ Len(calls) = 2
    /\ Len(outcomes) = 2
    /\ outcomes[1].valid
    /\ ~IsSuccess(outcomes[2])
    /\ \A c \in 1..Len(calls) : calls[c].method # "DELETE"

\* a client operation was called after the client's connection scope was released
CalledAfterRelease == ClientCalled /\ client = AExit(AEnter) /\ outcomes = <<>>

\* C29: after a client's connection scope has been released the client is back in
\* the not-acquired state: a later operation on it fails with the not-initialized
\* error and issues no HTTP request.
C29_ReleasedIsUnacquired ==
    CalledAfterRelease =>
        /\ pc = "raised"
        /\ result.kind = "exception"
        /\ result.type = "RuntimeError"
        /\ result.message.strs = <<"Client not initialized. Use async context manager.">>
        /\ calls = <<>>

\* the operation raised, without a request, an error that is not the
\* not-initialized one
C29_ClosedSessionError ==
    /\ CalledAfterRelease
    /\ pc = "raised"
    /\ calls = <<>>
    /\ result.type = "RuntimeError"
    /\ result.message.strs = <<"Cannot send a request, as the client has been closed.">>

\* the tools that only read
ReadTools ==
    {"get_calendar_events", "get_upcoming_workouts", "get_event", "get_workout_library",
     "get_workouts_in_folder"}

\* C30 as stated: get_calendar_events, get_upcoming_workouts, get_event,
\* get_workout_library and get_workouts_in_folder issue exactly one GET request
\* per invocation and never a POST, PUT or DELETE.
C30_ExactlyOneGet ==
    (tool \in ReadTools /\ pc # "idle") =>
        /\ Len(calls) = 1
        /\ calls[1].method = "GET"

\* C30: the read tools issue at most one request per invocation, always a GET and
\* never a POST, PUT or DELETE, so no sequence of their invocations changes the
\* remote state; they issue exactly one, except that get_calendar_events issues
\* none and returns an internal_error envelope when its date window cannot be
\* computed.
C30_ReadOnly ==
    (tool \in ReadTools /\ pc # "idle") =>
        /\ Len(calls) <= 1
        /\ \A c \in 1..Len(calls) : calls[c].method = "GET"
        /\ tool # "get_calendar_events" => Len(calls) = 1
        /\ calls = <<>> =>
              /\ pc = "returned"
              /\ IsErrorEnvelope("internal_error")
              /\ ~InDateRange(now + args.days_ahead)

\* get_workouts_in_folder returned the workouts it fetched with its one GET
C30_Witness ==
    /\ tool = "get_workouts_in_folder"
    /\ pc = "returned"
    /\ result.kind = "data"
    /\ Len(calls) = 1
    /\ calls[1].method = "GET"
    /\ Len(outcomes) = 1

\* get_calendar_events returned without any request
C30_NoRequest ==
    /\ tool = "get_calendar_events"
    /\ pc = "returned"
    /\ calls = <<>>
    /\ IsErrorEnvelope("internal_error")

====
